---- MODULE Spec2Model ----
(***************************************************************************)
(* Labor-law LINE bot: the webhook's intent resolver (src/index.js, the    *)
(* second copy in src/unnamed/part_000, lines 339-1498), the OpenAI        *)
(* gateway with retry and degradation, and the article index               *)
(* (src/src/articles.js).                                                  *)
(*                                                                         *)
(* A text is a sequence of units.  A unit stands for one fixed piece of a  *)
(* JavaScript string; TLA+ strings are ASCII, so the Chinese literals of   *)
(* the source are written in pinyin:                                       *)
(*   " "                 one whitespace character (matched by \s)          *)
(*   "AI/"  "ai/"  "ai+" the three-character AI-mode prefixes              *)
(*   "XiangXi"  "JinJie" 詳細, 進階   (the detailed markers)               *)
(*   "ShiSuan" "JiaBan" "Fei"   試算, 加班, 費: 試算加班費 is the         *)
(*                       calculator keyword, 加班費 and 加班 are keywords  *)
(*   "ShuoMing"          說明                                              *)
(*   "ZaiShiYiBi"        再試一筆                                          *)
(*   "ShiXin=183"        時薪=183     (one key=value token)                *)
(*   "GongNeng" "help" "ShiYongShuoMing"   功能, help, 使用說明            *)
(*   "JiaBanXiangGuan" ...                 加班相關 and the other          *)
(*                                         category commands               *)
(*   "LaoDongJiZhunFa"   勞動基準法                                        *)
(*   "LaoJiFa"           勞基法                                            *)
(*   "Di"  "Tiao"        第, 條                                            *)
(*   "0".."9"            half-width digits                                 *)
(*   "F0".."F9"          full-width digits ０..９                          *)
(*   "TeXiu"  "ZiQian"   特休, 資遣 (keywords)                             *)
(***************************************************************************)
EXTENDS Integers, Sequences, FiniteSets, TLC

VARIABLES
    hasOpenAI,   \* index.js:358  whether the OpenAI client `openai` exists
    articles,    \* articles.js:15 the loaded article records
    faqs,        \* faqs.js: the loaded FAQ records
    line,        \* whether LINE's API accepts every call ("up") or not
    remote,      \* what a call of the OpenAI API can come back with
    events,      \* index.js:1135 req.body.events, the batch being handled
    pc,          \* per event: position of its async callback
    branch,      \* per event: the branch of the handler that resolved it
    deliveries,  \* per event: the replyMessage/pushMessage calls made for it
    lineResults, \* per event: how each of these calls ended
    gw,          \* per event: the state of its askOpenAIForLaborHelp call
    acked,       \* index.js:1489 whether res.status(200) was sent
    otInput,     \* the argument of a call of computeOtPay
    otOutput,    \* what the call returned
    otArgs,      \* a call of parseOtArgs: its text, the tokens it has been
                 \* through, `params`, and `params` before the last one
    call,        \* a function of the program called on its own: its name,
                 \* its argument and what each call of it returned
    retry        \* a call of openaiChatWithRetry: its retries, its attempt,
                 \* where it is, the outcomes it has seen and its waits

\* The configuration and the request, the state of the handler, and the
\* calculator called on its own.
envVars == <<hasOpenAI, articles, faqs, line, remote, events>>
calcVars == <<otInput, otOutput, otArgs, call, retry>>

vars == <<hasOpenAI, articles, faqs, line, remote, events, pc, branch,
          deliveries, lineResults, gw, acked, otInput, otOutput, otArgs,
          call, retry>>

(***************************************************************************)
(* Bounds of the model.                                                    *)
(***************************************************************************)
\* A text is the concatenation of at most MaxLen phrases.
MaxLen == 3

(***************************************************************************)
(* Sequence helpers.                                                       *)
(***************************************************************************)
RECURSIVE Concat(_)
Concat(ss) == IF ss = <<>> THEN <<>> ELSE Head(ss) \o Concat(Tail(ss))

\* String.prototype.startsWith
startsWith(s, p) == Len(s) >= Len(p) /\ SubSeq(s, 1, Len(p)) = p

\* String.prototype.includes
includes(s, p) ==
    \E i \in 1..(Len(s) - Len(p) + 1) : SubSeq(s, i, i + Len(p) - 1) = p

\* \s of a JavaScript regular expression
IsSpace(u) == u = " "

\* String.prototype.toLowerCase, unit by unit
lowerUnit(u) ==
    CASE u = "AI/" -> "ai/"
      [] u = "AI+" -> "ai+"
      [] u = "HELP" -> "help"
      [] u = "WAGE" -> "wage"
      [] OTHER -> u

toLowerCase(s) == [i \in 1..Len(s) |-> lowerUnit(s[i])]

\* String.prototype.trim
RECURSIVE trimStart(_)
trimStart(s) ==
    IF s # <<>> /\ IsSpace(Head(s)) THEN trimStart(Tail(s)) ELSE s

RECURSIVE trimEnd(_)
trimEnd(s) ==
    IF s # <<>> /\ IsSpace(s[Len(s)])
    THEN trimEnd(SubSeq(s, 1, Len(s) - 1))
    ELSE s

trim(s) == trimEnd(trimStart(s))

\* s.replace(/\s+/g, "")
stripSpaces(s) == SelectSeq(s, LAMBDA u : ~IsSpace(u))

\* index.js normalize: lower case, all whitespace removed
normalize(text) ==
    IF text = <<>> THEN <<>> ELSE stripSpaces(toLowerCase(text))

(***************************************************************************)
(* Option values: JavaScript null is <<>>, a value v is <<v>>.             *)
(***************************************************************************)
None == <<>>
Some(v) == <<v>>

Max(S) == CHOOSE x \in S : \A y \in S : y <= x
Min2(a, b) == IF a <= b THEN a ELSE b
Max2(a, b) == IF a >= b THEN a ELSE b

(***************************************************************************)
(* articles.js: the article index.                                         *)
(***************************************************************************)
\* The records of src/data/articles.json (the data file is not part of the
\* sources; two records stand for it): 第11條 with keyword 資遣 and 第24條
\* with keywords 加班費 and 加班.
ArticlesJson ==
    << [no |-> 11, keywords |-> << <<"ZiQian">> >>],
       [no |-> 24, keywords |-> << <<"JiaBan", "Fei">>, <<"JiaBan">> >>] >>

\* Mutant of loadArticles: the records are there whatever happened to the
\* file.
loadArticlesWhatever(file) == ArticlesJson

\* The load at module start.  file is what reading and parsing
\* src/data/articles.json does: "loaded", "missing" (readFileSync throws),
\* "badJson" (JSON.parse throws) or "noArticles" (no articles key);
\* try { articles = parsed.articles || [] } catch { articles = [] }.
loadArticles(file) == IF file = "loaded" THEN ArticlesJson ELSE <<>>

\* articles.js normalize (the same function as index.js normalize)
normalizeKw(text) == normalize(text)

\* Mutant of findArticleByNumber: a record is made up for a number the list
\* does not hold.
findArticleByNumberMadeUp(no) ==
    IF no = None THEN None
    ELSE LET n == no[1]
             hit == {i \in 1..Len(articles) : articles[i].no = n}
         IN  IF hit = {} THEN Some([no |-> n, keywords |-> <<>>])
             ELSE Some(articles[CHOOSE i \in hit : \A j \in hit : i <= j])

\* findArticleByNumber: the first record whose no is n, or null.
\* no is <<>> (null) or <<n>>.
findArticleByNumber(no) ==
    IF no = None THEN None
    ELSE LET n == no[1]
             hit == {i \in 1..Len(articles) : articles[i].no = n}
         IN  IF hit = {} THEN None
             ELSE Some(articles[CHOOSE i \in hit : \A j \in hit : i <= j])

\* The score of one record: how many of its normalized, non-empty keywords
\* occur in the normalized text.
kwScore(rec, normalized) ==
    Cardinality({k \in 1..Len(rec.keywords) :
        LET kw == normalizeKw(rec.keywords[k])
        IN  kw # <<>> /\ includes(normalized, kw)})

\* Mutant of replaces: an equal score replaces the best record too.
replacesOnTie(score, bestScore) == score >= bestScore

\* if (score > bestScore)
replaces(score, bestScore) == score > bestScore

\* The loop of findArticleByKeyword over a record list: best is replaced only
\* by a strictly higher score.
RECURSIVE bestOf(_, _, _, _)
bestOf(recs, normalized, best, bestScore) ==
    IF recs = <<>> THEN [best |-> best, bestScore |-> bestScore]
    ELSE LET score == kwScore(Head(recs), normalized)
         IN  IF replaces(score, bestScore)
             THEN bestOf(Tail(recs), normalized, Some(Head(recs)), score)
             ELSE bestOf(Tail(recs), normalized, best, bestScore)

findArticleByKeyword(text) ==
    IF text = <<>> THEN None
    ELSE LET r == bestOf(articles, normalize(text), None, 0)
         IN  IF r.best = None \/ r.bestScore = 0 THEN None ELSE r.best

(***************************************************************************)
(* articles.js extractArticleNumber.                                       *)
(***************************************************************************)
HalfDigits == {"0", "1", "2", "3", "4", "5", "6", "7", "8", "9"}
FullDigits == {"F0", "F1", "F2", "F3", "F4", "F5", "F6", "F7", "F8", "F9"}

\* [0-9０-９]
IsDigit(u) == u \in HalfDigits \cup FullDigits

\* The value of a digit once a full-width digit is turned into its half-width
\* form (charCode - 65248).
digitVal(u) ==
    CASE u \in {"0", "F0"} -> 0 [] u \in {"1", "F1"} -> 1
      [] u \in {"2", "F2"} -> 2 [] u \in {"3", "F3"} -> 3
      [] u \in {"4", "F4"} -> 4 [] u \in {"5", "F5"} -> 5
      [] u \in {"6", "F6"} -> 6 [] u \in {"7", "F7"} -> 7
      [] u \in {"8", "F8"} -> 8 [] u \in {"9", "F9"} -> 9

\* parseInt(numStr, 10) of a string of digits
RECURSIVE parseIntDigits(_, _)
parseIntDigits(ds, acc) ==
    IF ds = <<>> THEN acc
    ELSE parseIntDigits(Tail(ds), acc * 10 + digitVal(Head(ds)))

\* Mutant of patterns: the bare 第N條 is tried first.
patternsBareFirst ==
    << [lit |-> <<>>,                  di |-> "required", tiao |-> "required"],
       [lit |-> <<"LaoDongJiZhunFa">>, di |-> "optional", tiao |-> "optional"],
       [lit |-> <<"LaoJiFa">>,         di |-> "optional", tiao |-> "optional"],
       [lit |-> <<"LaoDongJiZhunFa">>, di |-> "absent",   tiao |-> "optional"],
       [lit |-> <<"LaoJiFa">>,         di |-> "absent",   tiao |-> "optional"] >>

\* The five regular expressions, in the order of the patterns array:
\* a literal, then 第 (optional, absent or required), 1..3 digits, then 條
\* (optional or required).
patterns ==
    << [lit |-> <<"LaoDongJiZhunFa">>, di |-> "optional", tiao |-> "optional"],
       [lit |-> <<"LaoJiFa">>,         di |-> "optional", tiao |-> "optional"],
       [lit |-> <<"LaoDongJiZhunFa">>, di |-> "absent",   tiao |-> "optional"],
       [lit |-> <<"LaoJiFa">>,         di |-> "absent",   tiao |-> "optional"],
       [lit |-> <<>>,                  di |-> "required", tiao |-> "required"] >>

\* The number of digits at s[j..], at most 3 (the greedy {1,3}).
digitRun(s, j) ==
    Max({k \in 0..3 : \A d \in 0..(k - 1) :
            j + d <= Len(s) /\ IsDigit(s[j + d])})

\* The group captured when the pattern matches at position i, or <<>>.
matchAt(s, i, p) ==
    LET a == i + Len(p.lit)
        hasDi == a <= Len(s) /\ s[a] = "Di"
        j == IF p.di # "absent" /\ hasDi THEN a + 1 ELSE a
        k == digitRun(s, j)
    IN  IF /\ i + Len(p.lit) - 1 <= Len(s)
           /\ SubSeq(s, i, i + Len(p.lit) - 1) = p.lit
           /\ (p.di = "required" => hasDi)
           /\ k >= 1
           /\ (p.tiao = "required" => (j + k <= Len(s) /\ s[j + k] = "Tiao"))
        THEN SubSeq(s, j, j + k - 1)
        ELSE <<>>

\* s.match(re): the group of the leftmost match, or <<>>.
matchGroup(s, p) ==
    LET at == {i \in 1..Len(s) : matchAt(s, i, p) # <<>>}
    IN  IF at = {} THEN <<>>
        ELSE matchAt(s, CHOOSE i \in at : \A j \in at : i <= j, p)

RECURSIVE firstPattern(_, _)
firstPattern(s, k) ==
    IF k > Len(patterns) THEN None
    ELSE LET m == matchGroup(s, patterns[k])
         IN  IF m # <<>> THEN Some(parseIntDigits(m, 0))
             ELSE firstPattern(s, k + 1)

extractArticleNumber(text) ==
    IF text = <<>> THEN None ELSE firstPattern(stripSpaces(text), 1)

(***************************************************************************)
(* faqs.js is not among the sources: findBestFaq is the keyword scoring of *)
(* findArticleByKeyword applied to the FAQ records, which are loaded at    *)
(* start like the article records.                                         *)
(***************************************************************************)
FaqRecords == << [id |-> "faq-annual-leave", keywords |-> << <<"TeXiu">> >>] >>

\* The load of the FAQ records: the record set, or none of it when the
\* reference data cannot be loaded.
loadFaqs(file) == IF file = "loaded" THEN FaqRecords ELSE <<>>

findBestFaq(text) ==
    IF text = <<>> THEN None
    ELSE LET r == bestOf(faqs, normalize(text), None, 0)
         IN  IF r.best = None \/ r.bestScore = 0 THEN None ELSE r.best

(***************************************************************************)
(* index.js: the overtime-pay calculator.  Numbers are kept in hundredths  *)
(* (1.33 is 133, 183 is 18300); NaN is None and a number v is <<v>>.       *)
(***************************************************************************)
\* 試算加班費
OtKeyword == <<"ShiSuan", "JiaBan", "Fei">>

\* The characters of a unit, for the code that looks inside a token:
\* 時薪=183 is the key 時薪, "=", and the digits 1 8 3.
unitChars(u) ==
    IF u = "ShiXin=183" THEN <<"ShiXin", "=", "1", "8", "3">>
    ELSE IF u = "ShiXin=0" THEN <<"ShiXin", "=", "0">>
    ELSE <<u>>

RECURSIVE chars(_)
chars(s) == IF s = <<>> THEN <<>> ELSE unitChars(Head(s)) \o chars(Tail(s))

\* s.split(sep): the pieces of s between the units of seps
RECURSIVE splitOn(_, _, _)
splitOn(s, seps, cur) ==
    IF s = <<>> THEN <<cur>>
    ELSE IF Head(s) \in seps THEN <<cur>> \o splitOn(Tail(s), seps, <<>>)
    ELSE splitOn(Tail(s), seps, Append(cur, Head(s)))

\* parts.split(/\s+/).filter(Boolean)
tokensOf(parts) ==
    SelectSeq(splitOn(parts, {" "}, <<>>), LAMBDA t : t # <<>>)

\* The alias regular expressions of mapKeys, in the order they are tested;
\* each alternative is a string that the lower-cased key must contain.
mapKeysTable ==
    << [field |-> "hourly",
        alts |-> {<<"ShiXin">>, <<"hour">>, <<"hourly">>, <<"wage">>}],
       [field |-> "weekday",
        alts |-> {<<"PingRi", "JiaBan">>, <<"PingRi">>}],
       [field |-> "rest",
        alts |-> {<<"XiuXiRi", "JiaBan">>, <<"XiuXiRi">>, <<"Xiu", "JiaRi">>}],
       [field |-> "holiday",
        alts |-> {<<"JiaRi", "JiaBan">>, <<"GuoDing", "JiaRi">>, <<"GuoJia">>,
                  <<"JiaRi">>}],
       [field |-> "weekdayRate1",
        alts |-> {<<"PingRi", "BeiShu", "1">>, <<"weekdayrate1">>, <<"wkr1">>}],
       [field |-> "weekdayRate2",
        alts |-> {<<"PingRi", "BeiShu", "2">>, <<"weekdayrate2">>, <<"wkr2">>}],
       [field |-> "restRate",
        alts |-> {<<"XiuXiRi", "BeiShu">>, <<"restrate">>}],
       [field |-> "holidayRate",
        alts |-> {<<"JiaRi", "BeiShu">>, <<"holidayrate">>}] >>

RECURSIVE mapKeysFrom(_, _)
mapKeysFrom(kk, n) ==
    IF n > Len(mapKeysTable) THEN "unknown"
    ELSE IF \E a \in mapKeysTable[n].alts : includes(kk, a)
         THEN mapKeysTable[n].field
         ELSE mapKeysFrom(kk, n + 1)

mapKeys(k) == mapKeysFrom(toLowerCase(k), 1)

\* parseFloat of a string of digits and dots, in hundredths: the leading
\* digits, then at most one dot and its first two decimals; NaN (None) when
\* the string does not start with a number.
RECURSIVE leadingDigits(_)
leadingDigits(s) ==
    IF s # <<>> /\ Head(s) \in HalfDigits
    THEN <<Head(s)>> \o leadingDigits(Tail(s))
    ELSE <<>>

parseFloat(s) ==
    LET ip == leadingDigits(s)
        rest == SubSeq(s, Len(ip) + 1, Len(s))
        fp == IF rest # <<>> /\ Head(rest) = "."
              THEN leadingDigits(Tail(rest)) ELSE <<>>
        d1 == IF Len(fp) >= 1 THEN digitVal(fp[1]) ELSE 0
        d2 == IF Len(fp) >= 2 THEN digitVal(fp[2]) ELSE 0
    IN  IF ip = <<>> /\ fp = <<>> THEN None
        ELSE Some(parseIntDigits(ip, 0) * 100 + d1 * 10 + d2)

OtDefaults ==
    [hourly |-> None, weekday |-> Some(0), rest |-> Some(0),
     holiday |-> Some(0), weekdayRate1 |-> Some(133),
     weekdayRate2 |-> Some(166), restRate |-> Some(200),
     holidayRate |-> Some(200)]

\* The body of tokens.forEach for one token t (a string of characters).
applyToken(params, t) ==
    LET kv == splitOn(t, {"="}, <<>>)
        rawK == kv[1]
    IN  IF rawK = <<>> \/ Len(kv) < 2 THEN params
        ELSE LET key == mapKeys(trim(rawK))
                 val == parseFloat(SelectSeq(kv[2],
                            LAMBDA c : c \in HalfDigits \/ c = "."))
             IN  IF key \in DOMAIN params /\ val # None
                 THEN [params EXCEPT ![key] = val]
                 ELSE params

RECURSIVE applyTokens(_, _)
applyTokens(params, ts) ==
    IF ts = <<>> THEN params
    ELSE applyTokens(applyToken(params, Head(ts)), Tail(ts))

\* const parts = text.replace(/^試算加班費/i, "").trim();
\* const tokens = parts.split(/\s+/).filter(Boolean);
otTokens(text) ==
    LET cs == chars(text)
        kw == chars(OtKeyword)
        parts == trim(IF startsWith(cs, kw)
                      THEN SubSeq(cs, Len(kw) + 1, Len(cs)) ELSE cs)
    IN  tokensOf(parts)

parseOtArgs(text) == applyTokens(OtDefaults, otTokens(text))

\* Math.max(0, x || 0) of a field
hoursOf(x) == IF x = None THEN 0 ELSE Max2(0, x[1])

\* Math.round of a non-negative amount given in millionths
roundMillionths(x) == (x + 500000) \div 1000000

\* a * b, a + b and Math.round(a) of JavaScript numbers: NaN when an operand
\* is NaN (or was undefined).
mulN(a, b) == IF a = None \/ b = None THEN None ELSE Some(a[1] * b[1])
addN(a, b) == IF a = None \/ b = None THEN None ELSE Some(a[1] + b[1])
roundN(a) == IF a = None THEN None ELSE Some(roundMillionths(a[1]))

\* Mutant of invalidWage: a wage of zero is accepted.
invalidWageNegativeOnly(h) == h = None \/ h[1] < 0

\* if (!h || Number.isNaN(h) || h <= 0)
invalidWage(h) == h = None \/ h[1] <= 0

\* Mutant of thirdTier: the hours beyond four are not billed.
thirdTierDropped(wk, wk1, wk2) == 0

\* wk3 = Math.max(0, wk - wk1 - wk2)
thirdTier(wk, wk1, wk2) == Max2(0, wk - wk1 - wk2)

\* Mutant of displayedTotal: the total shown is the sum of the subtotals
\* shown.
displayedTotalOfRounded(weekdayPay, restPay, holidayPay, total) ==
    addN(addN(roundN(weekdayPay), roundN(restPay)), roundN(holidayPay))

\* 合計：Math.round(total)
displayedTotal(weekdayPay, restPay, holidayPay, total) == roundN(total)

\* Amounts are in millionths: wage, hours and rate are each in hundredths.
computeOtPay(p) ==
    LET h == p.hourly
        wk == hoursOf(p.weekday)
        rs == hoursOf(p.rest)
        hd == hoursOf(p.holiday)
    IN  IF invalidWage(h) THEN [ok |-> FALSE]
        ELSE LET wk1 == Min2(200, wk)
                 wk2 == Max2(0, Min2(200, wk - wk1))
                 wk3 == thirdTier(wk, wk1, wk2)
                 weekdayPay ==
                    mulN(h, addN(addN(mulN(Some(wk1), p.weekdayRate1),
                                      mulN(Some(wk2), p.weekdayRate2)),
                                 mulN(Some(wk3), p.weekdayRate2)))
                 restPay == mulN(h, mulN(Some(rs), p.restRate))
                 holidayPay == mulN(h, mulN(Some(hd), p.holidayRate))
                 total == addN(addN(weekdayPay, restPay), holidayPay)
             IN  [ok |-> TRUE,
                  weekdayPay |-> weekdayPay, restPay |-> restPay,
                  holidayPay |-> holidayPay, total |-> total,
                  shownWeekday |-> roundN(weekdayPay),
                  shownRest |-> roundN(restPay),
                  shownHoliday |-> roundN(holidayPay),
                  shownTotal |->
                      displayedTotal(weekdayPay, restPay, holidayPay, total)]

(***************************************************************************)
(* index.js: the citation links appended to a generated answer.  A string  *)
(* built by appendLawLinks is kept as its two parts: the answer, and the   *)
(* links of the list that follows it (no link: the answer alone).          *)
(***************************************************************************)
\* lawUrl: the page of article n, or the page of the whole act.
lawUrl(no) ==
    IF no <= 0 THEN [page |-> "LawAll", flno |-> 0]
    ELSE [page |-> "LawSingle", flno |-> no]

\* \s*: the first position from j on that holds no whitespace
RECURSIVE skipSpaces(_, _)
skipSpaces(s, j) ==
    IF j <= Len(s) /\ IsSpace(s[j]) THEN skipSpaces(s, j + 1) ELSE j

\* The half-width digits at s[j..], counted up to four.
halfDigitRun(s, j) ==
    Max({k \in 0..4 : \A d \in 0..(k - 1) :
            j + d <= Len(s) /\ s[j + d] \in HalfDigits})

\* /第\s*([0-9]{1,3})\s*條/ matched at position i: the group and the
\* position after the match, or no match.
lawMatchAt(s, i) ==
    LET j == skipSpaces(s, i + 1)
        k == halfDigitRun(s, j)
        m == skipSpaces(s, j + k)
    IN  IF /\ s[i] = "Di"
           /\ k \in 1..3
           /\ m <= Len(s)
           /\ s[m] = "Tiao"
        THEN [found |-> TRUE, group |-> SubSeq(s, j, j + k - 1), next |-> m + 1]
        ELSE [found |-> FALSE, group |-> <<>>, next |-> i + 1]

\* Mutant of setAdd: a number already there is added again.
setAddAgain(nums, n) == Append(nums, n)

\* nums.add(n) of a Set kept in insertion order
setAdd(nums, n) ==
    IF \E k \in 1..Len(nums) : nums[k] = n THEN nums ELSE Append(nums, n)

\* The loop of re.exec over the text: nums is the Set, in insertion order.
RECURSIVE execAll(_, _, _)
execAll(s, i, nums) ==
    IF i > Len(s) THEN nums
    ELSE LET m == lawMatchAt(s, i)
             n == parseIntDigits(m.group, 0)
         IN  IF m.found /\ n > 0 /\ n < 1000
             THEN execAll(s, m.next, setAdd(nums, n))
             ELSE execAll(s, m.next, nums)

extractLawNumbers(text) == execAll(text, 1, <<>>)

appendLawLinks(answer) ==
    LET nums == SortSeq(extractLawNumbers(answer), LAMBDA a, b : a < b)
    IN  [answer |-> answer,
         links |-> [k \in 1..Len(nums) |-> [no |-> nums[k], url |-> lawUrl(nums[k])]]]

(***************************************************************************)
(* index.js: the length guard of the texts sent to LINE.                   *)
(***************************************************************************)
\* limit = 4500
LineLimit == 4500

\* "\n…（已截斷）"
TruncationMarker == <<"LF", "...", "(", "Yi", "Jie", "Duan", ")">>

\* Mutant of ensureLineLength: the text goes out as it is.
ensureLineLengthOff(s) == s

\* if (!s) return s;
\* return s.length > limit ? s.slice(0, limit) + "\n…（已截斷）" : s;
ensureLineLength(s) ==
    IF s = <<>> THEN s
    ELSE IF Len(s) > LineLimit
    THEN SubSeq(s, 1, LineLimit) \o TruncationMarker
    ELSE s

\* The message replyText and pushText hand to the LINE client.
textMessage(text) == [type |-> "text", text |-> ensureLineLength(text)]

(***************************************************************************)
(* index.js: the OpenAI gateway (openaiChatWithRetry and                   *)
(* askOpenAIForLaborHelp).                                                 *)
(***************************************************************************)
\* retries: 1 in each of the three calls of openaiChatWithRetry
Retries == 1

\* The failures of openai.chat.completions.create: what happened (kind), and
\* the message and status the code reads (status 0: no status).
Errors ==
    { [kind |-> "timeout",    message |-> "Request timed out", status |-> 0],
      [kind |-> "timeout",    message |-> "ETIMEDOUT",         status |-> 0],
      [kind |-> "reset",      message |-> "ECONNRESET",        status |-> 0],
      [kind |-> "dns",        message |-> "ENOTFOUND",         status |-> 0],
      [kind |-> "server",     message |-> "",                  status |-> 500],
      [kind |-> "server",     message |-> "",                  status |-> 503],
      [kind |-> "client",     message |-> "",                  status |-> 400],
      [kind |-> "client",     message |-> "",                  status |-> 401],
      [kind |-> "client",     message |-> "",                  status |-> 429] }

\* The texts a completion can carry (choices[0].message.content):
\*   可以                          prose without a reference
\*   " 可以第24條第 7 條第24條 "   surrounding whitespace, a repeated
\*                                 reference, references out of order and
\*                                 whitespace inside a reference
\*   第0條第1234條第３條           nothing the pattern accepts: zero, four
\*                                 digits, a full-width digit
\*   " "                           whitespace only
Contents ==
    { <<"KeYi">>,
      <<" ", "KeYi", "Di", "2", "4", "Tiao", "Di", " ", "7", " ", "Tiao",
        "Di", "2", "4", "Tiao", " ">>,
      <<"Di", "0", "Tiao", "Di", "1", "2", "3", "4", "Tiao", "Di", "F3", "Tiao">>,
      <<" ">> }

\* What a remote call can come back with: a completion with content, a
\* completion whose content is empty or missing, or a failure.
Outcomes ==
    {[type |-> "ok", err |-> None, content |-> c] : c \in Contents}
    \cup {[type |-> "empty", err |-> None, content |-> <<>>]}
    \cup {[type |-> "error", err |-> Some(e), content |-> <<>>] : e \in Errors}

\* Mutants of retriable: only timeouts are retried; client errors (4xx) are
\* retried as well; every failure is retried.
retriableTimeoutsOnly(err) ==
    \/ err.message = "Request timed out"
    \/ err.message = "APIConnectionTimeoutError"
    \/ err.message = "ETIMEDOUT"

retriableFrom400(err) ==
    \/ err.message = "Request timed out"
    \/ err.message = "APIConnectionTimeoutError"
    \/ err.message = "ETIMEDOUT"
    \/ err.message = "ECONNRESET"
    \/ err.message = "ENOTFOUND"
    \/ (err.status >= 400 /\ err.status < 600)

retriableAlways(err) == TRUE

\* The retriable test of openaiChatWithRetry's catch block.
retriable(err) ==
    \/ err.message = "Request timed out"
    \/ err.message = "APIConnectionTimeoutError"
    \/ err.message = "ETIMEDOUT"
    \/ err.message = "ECONNRESET"
    \/ err.message = "ENOTFOUND"
    \/ (err.status >= 500 /\ err.status < 600)

\* Mutant of attemptsLeft: one attempt more is allowed.
attemptsLeftOneMore(attempt, retries) == attempt <= retries

\* The negation of attempt >= retries in if (!retriable || attempt >= retries).
attemptsLeft(attempt, retries) == attempt < retries

\* Mutant of backoffDelay: the wait does not grow.
backoffDelayFlat(attempt, jitter) == 1000 + jitter

\* baseDelay * Math.pow(2, attempt) + Math.floor(Math.random() * 200),
\* jitter being the random part.
backoffDelay(attempt, jitter) == 1000 * 2^attempt + jitter

\* No call of openaiChatWithRetry is being followed on its own.
IdleRetry ==
    [retries |-> 0, attempt |-> 0, st |-> "idle", seen |-> <<>>, waits |-> <<>>]

\* The body of while (true) from the return of create() with `out` to the
\* next await, to the return or to the throw.
retryAfterCall(r, out, jitter) ==
    LET r1 == [r EXCEPT !.seen = Append(@, out)]
    IN  IF out.type # "error" THEN [r1 EXCEPT !.st = "returned"]
        ELSE IF ~retriable(out.err[1]) \/ ~attemptsLeft(r.attempt, r.retries)
        THEN [r1 EXCEPT !.st = "threw"]
        ELSE [r1 EXCEPT !.st = "sleep",
                        !.waits = Append(@, backoffDelay(r.attempt, jitter))]

\* The label of the first openaiChatWithRetry call.
firstTier(mode) == IF mode = "detailed" THEN "detailed#1" ELSE "concise#1"

\* Mutants of nextTier: the reduced-token tier is skipped; the reduced-token
\* tier is tried whatever the mode.
nextTierSkipsReduced(mode, tier) ==
    CASE tier \in {"detailed#1", "concise#1", "detailed#2"} -> "concise#fallback"
      [] tier = "concise#fallback" -> "none"

nextTierIgnoresMode(mode, tier) ==
    CASE tier \in {"detailed#1", "concise#1"} -> "detailed#2"
      [] tier = "detailed#2" -> "concise#fallback"
      [] tier = "concise#fallback" -> "none"

\* The call that follows a call that threw: detailed#2 only if (isDetailed),
\* then concise#fallback, then return null ("none": no further call).
nextTier(mode, tier) ==
    CASE tier \in {"detailed#1", "concise#1"} ->
            IF mode = "detailed" THEN "detailed#2" ELSE "concise#fallback"
      [] tier = "detailed#2" -> "concise#fallback"
      [] tier = "concise#fallback" -> "none"

\* Mutant of lastCatch: the last catch block throws the error on.
lastCatchRethrows == "threw"

\* What askOpenAIForLaborHelp gives the handler when its last try fails:
\* catch (err3) { ...; return null; }
lastCatch == "none"

\* Mutant of inflightAfter: a call that timed out is left running.
inflightAfterLeakingTimeout(n, out) ==
    IF out.type = "error" /\ out.err[1].kind = "timeout" THEN n ELSE n - 1

\* The calls in flight once a call has come back (fulfilled, rejected or
\* timed out and aborted by the client).
inflightAfter(n, out) == n - 1

\* Mutant of successText: the last try returns the content as it came.
successTextRawInLastTry(tier, choice) ==
    IF tier = "concise#fallback" THEN [answer |-> choice, links |-> <<>>]
    ELSE appendLawLinks(trim(choice))

\* What a try returns for a completion with content:
\* appendLawLinks(choice.trim()), in each of the three tries.
successText(tier, choice) == appendLawLinks(trim(choice))

\* answer is the string askOpenAIForLaborHelp returned, when it returned one.
IdleGw ==
    [st |-> "idle", mode |-> "none", prompt |-> None, tier |-> "none",
     attempt |-> 0, inflight |-> 0, log |-> <<>>, result |-> "pending",
     answer |-> None]

\* askOpenAIForLaborHelp up to its first await.
askOpenAIForLaborHelp(mode, prompt) ==
    IF ~hasOpenAI
    THEN [IdleGw EXCEPT !.st = "ret", !.mode = mode, !.prompt = prompt,
                        !.result = "none"]
    ELSE [IdleGw EXCEPT !.st = "call", !.mode = mode, !.prompt = prompt,
                        !.tier = firstTier(mode)]

\* How the log names an outcome.
outcomeClass(out) ==
    IF out.type # "error" THEN out.type
    ELSE IF out.err[1].kind = "client" THEN "fatal" ELSE "transient"

\* Mutant of noChoice: a completion without content is handled as a failure
\* that is not retried, the next tier being tried.
noChoiceDegrades(g) ==
    LET nt == nextTier(g.mode, g.tier)
    IN  IF nt = "none"
        THEN [g EXCEPT !.st = "ret", !.result = "none"]
        ELSE [g EXCEPT !.st = "call", !.tier = nt, !.attempt = 0]

\* The null of return choice ? appendLawLinks(choice.trim()) : null, in each
\* of the three tries: the return leaves askOpenAIForLaborHelp.
noChoice(g) == [g EXCEPT !.st = "ret", !.result = "none"]

\* One call of openai.chat.completions.create comes back with `out`, and
\* the code runs on to its next await or to the return of
\* askOpenAIForLaborHelp.
afterCall(g, out) ==
    LET g1 == [g EXCEPT !.inflight = inflightAfter(g.inflight, out),
                        !.log = Append(g.log,
                                       [tier |-> g.tier, attempt |-> g.attempt,
                                        outcome |-> outcomeClass(out),
                                        content |-> out.content])]
    IN  CASE out.type = "ok" ->
                \* return choice ? appendLawLinks(choice.trim()) : null
                [g1 EXCEPT !.st = "ret", !.result = "text",
                           !.answer = Some(successText(g.tier, out.content))]
          [] out.type = "empty" ->
                noChoice(g1)
          [] out.type = "error" ->
                IF retriable(out.err[1]) /\ attemptsLeft(g.attempt, Retries)
                THEN [g1 EXCEPT !.st = "sleep"]
                ELSE LET nt == nextTier(g.mode, g.tier)
                     IN  IF nt = "none"
                         THEN [g1 EXCEPT !.st = "ret", !.result = lastCatch]
                         ELSE [g1 EXCEPT !.st = "call", !.tier = nt,
                                         !.attempt = 0]

(***************************************************************************)
(* index.js: the webhook handler, app.post("/webhook").                    *)
(***************************************************************************)
\* The replyToken of LINE's Verify event.
VerifyToken == "00000000000000000000000000000000"

\* The exact commands of the handler, as normalized texts.
MenuCommands == {<<"GongNeng">>, <<"help">>, <<"ShiYongShuoMing">>}
CategoryCommands ==
    {<<"JiaBan", "XiangGuan">>, <<"TeXiu", "XiangGuan">>,
     <<"XiuJia", "XiangGuan">>, <<"LiZhi", "XiangGuan">>,
     <<"ZiQian", "XiangGuan">>, <<"LiZhi", "ZiQian", "XiangGuan">>}

\* lowerTrimmed.startsWith("ai/") || lowerTrimmed.startsWith("ai+")
isAiPrefixed(userText) ==
    LET lowerTrimmed == toLowerCase(trim(userText))
    IN  startsWith(lowerTrimmed, <<"ai/">>) \/ startsWith(lowerTrimmed, <<"ai+">>)

\* raw = trimmed.slice(3).trim()
aiRaw(userText) == trim(Tail(trim(userText)))

\* Mutant of aiIsDetailed: the marker is never seen.
aiIsDetailedNever(raw) == FALSE

\* /^詳細|^進階/.test(raw)
aiIsDetailed(raw) == raw # <<>> /\ Head(raw) \in {"XiangXi", "JinJie"}

\* isDetailed ? raw.replace(/^(詳細|進階)/, "").trim() : raw
aiQuestionOf(raw) == IF aiIsDetailed(raw) THEN trim(Tail(raw)) ELSE raw

\* normalized.startsWith("試算加班費 "): the keyword and one space
isOtArgsCommand(normalized) == startsWith(normalized, OtKeyword \o <<" ">>)

\* A delivery: the call (replyMessage or pushMessage), the message it
\* carries, and the gateway's answer the message embeds, if it embeds one.
reply(body) == [via |-> "reply", body |-> body, quoted |-> None]
push(body) == [via |-> "push", body |-> body, quoted |-> None]

\* Mutant of answerTo: the answer always goes by reply.
answerToReplyOnly(to, body) == reply(body)

\* if (to) pushText(to, ...) else replyText(event.replyToken, ...)
answerTo(to, body) == IF to # "null" THEN push(body) ELSE reply(body)

\* Mutant of eventCatch: without the try/catch of the callback, its promise
\* is rejected.
eventCatchMissing == "rejected"

\* catch (err) { console.error(...) }: the callback of an event whose
\* processing threw ends like any other.
eventCatch == "done"

Settled(b, sent) ==
    [branch |-> b, sent |-> sent, pc |-> "done", gw |-> IdleGw, to |-> "unset"]

Asking(b, sent, mode, prompt, to) ==
    [branch |-> b, sent |-> sent, pc |-> "gateway",
     gw |-> askOpenAIForLaborHelp(mode, prompt), to |-> to]

\* The AI-mode branch, up to its first await of the gateway or to its return.
\* source is getSourceId(event): "null" or an id.
aiBranch(userText, source) ==
    LET raw == aiRaw(userText)
        isDetailed == aiIsDetailed(raw)
        aiQuestion == aiQuestionOf(raw)
        ack == reply("aiThinking")
    IN  IF aiQuestion = <<>> THEN Settled("ai", <<reply("aiNoQuestion")>>)
        ELSE IF ~hasOpenAI
             THEN [Settled("ai", <<ack, answerTo(source, "aiNoKey")>>)
                      EXCEPT !.to = source]
             ELSE Asking("ai", <<ack>>,
                         IF isDetailed THEN "detailed" ELSE "concise",
                         [kind |-> "question", text |-> aiQuestion], source)

\* The calculator branches.
otBranch(userText, normalized) ==
    IF normalized = OtKeyword
    THEN Settled("calculator", <<reply("otFlex")>>)
    ELSE IF startsWith(normalized, OtKeyword) /\ includes(normalized, <<"ShuoMing">>)
    THEN Settled("calculator", <<reply("otHelp")>>)
    ELSE IF isOtArgsCommand(normalized)
    THEN IF computeOtPay(parseOtArgs(userText)).ok
         THEN Settled("calculator", <<reply("otResult")>>)
         ELSE Settled("calculator", <<reply("otInvalidWage")>>)
    ELSE IF normalized = <<"ZaiShiYiBi">>
    THEN Settled("calculator", <<reply("otFlex")>>)
    ELSE Settled("none", <<>>)

\* Mutant of isVerifyEvent: the Verify event is not recognized.
isVerifyEventNever(event) == FALSE

\* event.replyToken === "00000000000000000000000000000000"
isVerifyEvent(event) == event.replyToken = VerifyToken

\* Mutant of explainArticle: the prompt names no article.
explainArticleUnnumbered(no) == [kind |-> "explainArticle", no |-> 0]

\* The prompt the article branch synthesizes for an article the index does
\* not hold: `請用簡短白話說明台灣《勞動基準法》第 ${articleNo} 條的大意與保護重點...`.
explainArticle(no) == [kind |-> "explainArticle", no |-> no]

\* The handler of one event from its start to its first await of the
\* gateway, or to its return.  A message event without a message
\* (msgType "missing") makes event.message.type throw a TypeError, which
\* the catch of the callback logs.
Resolve(event, source) ==
    IF isVerifyEvent(event) THEN Settled("sentinel", <<>>)
    ELSE IF event.type = "follow" THEN Settled("follow", <<reply("welcome")>>)
    ELSE IF event.type = "message" /\ event.msgType = "missing"
    THEN [Settled("threw", <<>>) EXCEPT !.pc = eventCatch]
    ELSE IF event.type # "message" \/ event.msgType # "text"
    THEN Settled("nontext", <<>>)
    ELSE
    LET userText == event.text
        normalized == normalize(userText)
        ot == otBranch(userText, normalized)
        articleNo == extractArticleNumber(userText)
    IN  IF isAiPrefixed(userText) THEN aiBranch(userText, source)
        ELSE IF ot.branch # "none" THEN ot
        ELSE IF normalized \in MenuCommands
        THEN Settled("command", <<reply("menu")>>)
        ELSE IF normalized \in CategoryCommands
        THEN Settled("command", <<reply("category")>>)
        ELSE IF articleNo # None /\ articleNo[1] # 0
        THEN IF findArticleByNumber(articleNo) # None
             THEN Settled("article", <<reply("article")>>)
             ELSE Asking("article", <<>>, "concise",
                         explainArticle(articleNo[1]), "unset")
        ELSE IF findBestFaq(userText) # None
        THEN Settled("faq", <<reply("faq")>>)
        ELSE IF findArticleByKeyword(userText) # None
        THEN Settled("keyword", <<reply("articleByKeyword")>>)
        ELSE Asking("fallback", <<>>, "concise",
                    [kind |-> "userText", text |-> userText], "unset")

\* if (aiAnswer): what the handler makes of the gateway's return value;
\* null and the empty string are both falsy.
seenBy(g) ==
    IF g.result = "text" /\ g.answer[1].answer = <<>> /\ g.answer[1].links = <<>>
    THEN "none"
    ELSE g.result

\* The messages built around aiAnswer.
AnswerBodies == {"aiAnswer", "articleByAi", "fallbackByAi"}

\* body = header + aiAnswer + disclaimer: the answer inside the message
embed(ds, aiAnswer) ==
    [k \in 1..Len(ds) |->
        IF ds[k].body \in AnswerBodies
        THEN [ds[k] EXCEPT !.quoted = aiAnswer] ELSE ds[k]]

\* Mutant of afterGateway: nothing is delivered when the gateway has no
\* answer.
afterGatewaySilentOnNone(b, result, to) ==
    IF result # "text" THEN <<>>
    ELSE IF b = "ai" THEN <<answerTo(to, "aiAnswer")>>
    ELSE IF b = "article" THEN <<reply("articleByAi")>>
    ELSE <<reply("fallbackByAi")>>

\* The handler from the return of askOpenAIForLaborHelp to its own return:
\* the one delivery each gateway branch makes with the answer or with its
\* local message.  An exception out of the gateway would be caught by the
\* per-event try/catch, with nothing delivered.
afterGateway(b, result, to) ==
    IF result = "threw" THEN <<>>
    ELSE IF b = "ai"
    THEN <<answerTo(to, IF result = "text" THEN "aiAnswer" ELSE "aiDegraded")>>
    ELSE IF b = "article"
    THEN <<reply(IF result = "text" THEN "articleByAi" ELSE "articleNotAvailable")>>
    ELSE <<reply(IF result = "text" THEN "fallbackByAi" ELSE "fallbackGuidance")>>

(***************************************************************************)
(* The inputs.                                                             *)
(***************************************************************************)
Phrases ==
    { <<" ">>, <<"AI/">>, <<"XiangXi">>, OtKeyword, <<"ShuoMing">>,
      <<"ShiXin=183">>, <<"GongNeng">>, <<"Di", "2", "4", "Tiao">>,
      <<"Di", "9", "9", "Tiao">>, <<"Di", "0", "Tiao">>, <<"TeXiu">>,
      <<"ZiQian">> }

Texts ==
    { Concat(ps) : ps \in UNION { [1..n -> Phrases] : n \in 1..MaxLen } }

TextEvents ==
    { [replyToken |-> t, type |-> "message", msgType |-> "text", text |-> x] :
        t \in {"token", VerifyToken}, x \in Texts }

OtherEvents ==
    { [replyToken |-> t, type |-> ty, msgType |-> mt, text |-> <<>>] :
        t \in {"token", VerifyToken}, ty \in {"follow", "message", "unfollow"},
        mt \in {"image", "missing"} }

Events == TextEvents \cup OtherEvents

Sources == {"null", "U1"}

\* Text messages that the gateway is asked about: a detailed and a concise
\* AI-mode question, a reference to an article the index does not hold and
\* a text that nothing else answers.
GatewayEvents ==
    { [replyToken |-> "token", type |-> "message", msgType |-> "text", text |-> x] :
        x \in { <<"AI/", "XiangXi", "ZiQian">>, <<"AI/", "ZiQian">>,
                <<"Di", "9", "9", "Tiao">>, <<"ShuoMing">> } }

\* The events of the requests that carry several events: a message event
\* without a message, the Verify event, a command and a text that only the
\* gateway can answer.
BatchEvents ==
    { [replyToken |-> "token", type |-> "message", msgType |-> "missing",
       text |-> <<>>],
      [replyToken |-> VerifyToken, type |-> "message", msgType |-> "text",
       text |-> <<"GongNeng">>],
      [replyToken |-> "token", type |-> "message", msgType |-> "text",
       text |-> <<"GongNeng">>],
      [replyToken |-> "token", type |-> "message", msgType |-> "text",
       text |-> <<"ShuoMing">>] }

\* What the remote calls of these requests come back with: an answer, a
\* timeout or a rejected key.
BatchOutcomes ==
    { out \in Outcomes :
        \/ out.type = "ok" /\ out.content = <<"KeYi">>
        \/ out.type = "error" /\ out.err[1].message = "Request timed out"
        \/ out.type = "error" /\ out.err[1].status = 401 }

\* A request carries at most MaxBatch events.
MaxBatch == 2

Batches == UNION { [1..n -> BatchEvents] : n \in 0..MaxBatch }

\* The arguments computeOtPay is called with, in hundredths; None is NaN or
\* a missing field.
OtInputs ==
    [hourly : {None, Some(-18300), Some(0), Some(18300)},
     weekday : {None, Some(-100), Some(0), Some(150), Some(200), Some(250),
                Some(400), Some(450)},
     rest : {Some(-300), Some(0), Some(20)},
     holiday : {None, Some(100)},
     weekdayRate1 : {Some(133), Some(150)},
     weekdayRate2 : {Some(166), None},
     restRate : {Some(200)},
     holidayRate : {Some(200), Some(0)}]

\* The tokens given to parseOtArgs: every alias of the table with a number,
\* an alias in upper case, a key that is no alias, a key that holds an alias
\* without being one, a token without "=", a token without a key, and
\* tokens whose value holds no number.
OtAliasKeys == UNION {mapKeysTable[n].alts : n \in 1..Len(mapKeysTable)}

OtTokenSet ==
    { k \o <<"=">> \o v : k \in OtAliasKeys, v \in {<<"3">>, <<"1", ".", "5">>} }
    \cup { <<"WAGE", "=", "3">>, <<"foo", "=", "3">>,
           <<"foo", "ShiXin", "=", "3">>, <<"PingRi">>, <<"=", "3">>,
           <<"PingRi", "=">>, <<"ShiXin", "=", "foo">> }

\* A call of parseOtArgs is given at most MaxTokens tokens.
MaxTokens == 2

\* 試算加班費 followed by up to MaxTokens tokens, each after one space.
OtTexts ==
    { OtKeyword \o Concat([k \in 1..Len(ts) |-> <<" ">> \o ts[k]]) :
        ts \in UNION { [1..n -> OtTokenSet] : n \in 0..MaxTokens } }

\* The record lists findArticleByKeyword is called over: up to MaxRecords
\* records, numbered in load order, each with one of these keyword lists
\* (none, one keyword, two, a keyword of whitespace only, a keyword twice,
\* once as 特休 and once as 特 休).
KeywordLists ==
    { <<>>, << <<"Te", "Xiu">> >>, << <<"ZiQian">> >>,
      << <<"Te", "Xiu">>, <<"ZiQian">> >>, << <<" ">>, <<"ZiQian">> >>,
      << <<"Te", "Xiu">>, <<"Te", " ", "Xiu">> >> }

MaxRecords == 2

RecordLists ==
    { [i \in 1..Len(ks) |-> [no |-> i, keywords |-> ks[i]]] :
        ks \in UNION { [1..n -> KeywordLists] : n \in 0..MaxRecords } }

\* The texts it is called on.
KeywordQueries ==
    { <<>>, <<"Te", "Xiu">>, <<"ZiQian">>, <<"Te", " ", "Xiu", "ZiQian">>,
      <<"ZiQian", "Te", "Xiu">>, <<"Xiu", "Te">> }

\* The texts extractArticleNumber is called on: up to MaxRefLen of these
\* pieces (the two names of the act, 第, 條, numbers of one to four digits,
\* half-width and full-width, whitespace, another word, and 第7條).
RefPieces ==
    { <<"LaoDongJiZhunFa">>, <<"LaoJiFa">>, <<"Di">>, <<"Tiao">>,
      <<"2", "4">>, <<"F3", "8">>, <<"0">>, <<"1", "2", "3", "4">>,
      <<" ">>, <<"KeYi">>, <<"Di", "7", "Tiao">> }

MaxRefLen == 4

RefTexts ==
    { Concat(ps) : ps \in UNION { [1..n -> RefPieces] : n \in 0..MaxRefLen } }

\* The texts extractLawNumbers is called on, each kept as the sequence of
\* its pieces, MaxLinkRefs of them at most: 第11條, 第17條, 第 7 條, 第0條,
\* 第３條 (full-width), 第1234條, 勞基法24條, and another word.
LinkPieces ==
    { <<"Di", "1", "1", "Tiao">>, <<"Di", "1", "7", "Tiao">>,
      <<"Di", " ", "7", " ", "Tiao">>, <<"Di", "0", "Tiao">>,
      <<"Di", "F3", "Tiao">>, <<"Di", "1", "2", "3", "4", "Tiao">>,
      <<"LaoJiFa", "2", "4", "Tiao">>, <<"KeYi">> }

MaxLinkRefs == 3

LinkTexts == UNION { [1..n -> LinkPieces] : n \in 0..MaxLinkRefs }

\* The texts replyText and pushText are called on: the unit at position k
\* is k modulo 10, and the lengths are the short ones, those around the
\* limit, and twice the limit.
TextLengths ==
    (0..3) \cup ((LineLimit - 10)..(LineLimit + 10)) \cup {2 * LineLimit}

LongTexts == { [k \in 1..n |-> k % 10] : n \in TextLengths }

\* openaiChatWithRetry on its own: its retries option is at most MaxRetries
\* (the default is 2); a call comes back with a completion, a timeout, a
\* 503 or a 401; Math.floor(Math.random() * 200) is one of Jitters.
MaxRetries == 2

RetryOutcomes ==
    { out \in Outcomes :
        \/ out.type = "ok" /\ out.content = <<"KeYi">>
        \/ out.type = "error" /\ out.err[1].message = "Request timed out"
        \/ out.type = "error" /\ out.err[1].status \in {401, 503} }

Jitters == {0, 57, 199}

\* A function called on its own is called at most MaxCalls times.
MaxCalls == 2

\* No function is being called on its own.
IdleCall == [fn |-> "none", arg |-> <<>>, rets |-> <<>>]

\* No call of parseOtArgs is going on.
IdleArgs == [text |-> <<>>, done |-> 0, params |-> OtDefaults, before |-> OtDefaults]

(***************************************************************************)
(* The state machine: one webhook request with its batch of events.        *)
(***************************************************************************)
\* The handler is called with a batch; the calculator is not being called.
InitEvents(batch) ==
    /\ events = batch
    /\ pc = [i \in DOMAIN batch |-> "start"]
    /\ branch = [i \in DOMAIN batch |-> "none"]
    /\ deliveries = [i \in DOMAIN batch |-> <<>>]
    /\ lineResults = [i \in DOMAIN batch |-> <<>>]
    /\ gw = [i \in DOMAIN batch |-> IdleGw]
    /\ acked = FALSE
    /\ otInput = OtDefaults
    /\ otOutput = None
    /\ otArgs = IdleArgs
    /\ call = IdleCall
    /\ retry = IdleRetry

InitOf(batch) ==
    /\ hasOpenAI \in BOOLEAN
    /\ articles = loadArticles("loaded")
    /\ faqs = loadFaqs("loaded")
    /\ line = "up"
    /\ remote = Outcomes
    /\ InitEvents(batch)

\* A webhook request that carries one event.
Init == \E e \in Events : InitOf(<<e>>)

\* How the calls of client.replyMessage / client.pushMessage can end.
callResults(n) ==
    [1..n -> IF line = "up" THEN {"accepted"} ELSE {"accepted", "rejected"}]

\* Mutant of callbacksAfter: the events are handled one after the other
\* inside one try, so that a throw ends the events not yet started.
callbacksAfterSharedTry(pcs, i, r) ==
    IF r.branch = "threw"
    THEN [j \in DOMAIN pcs |-> IF j = i \/ pcs[j] = "start" THEN "done" ELSE pcs[j]]
    ELSE [pcs EXCEPT ![i] = r.pc]

\* events.map(async (event) => { try ... catch ... }): the callbacks once
\* the callback of event i has run to r.
callbacksAfter(pcs, i, r) == [pcs EXCEPT ![i] = r.pc]

\* Mutant of wake: the attempt counter is one variable for all requests.
wakeSharedAttempt(gws, i) ==
    [j \in DOMAIN gws |->
        IF j = i THEN [gws[j] EXCEPT !.st = "call", !.attempt = @ + 1]
        ELSE [gws[j] EXCEPT !.attempt = gws[i].attempt + 1]]

\* The end of the backoff delay: attempt += 1 (a local of the call), and
\* the loop goes round.
wake(gws, i) == [gws EXCEPT ![i].st = "call", ![i].attempt = @ + 1]

\* The callback of event i runs from its start to its first gateway await
\* or to its end.
Dispatch(i) ==
    /\ pc[i] = "start"
    /\ \E source \in Sources :
         LET r == Resolve(events[i], source)
         IN  /\ pc' = callbacksAfter(pc, i, r)
             /\ branch' = [branch EXCEPT ![i] = r.branch]
             /\ deliveries' = [deliveries EXCEPT ![i] = r.sent]
             /\ \E rs \in callResults(Len(r.sent)) :
                   lineResults' = [lineResults EXCEPT ![i] = rs]
             /\ gw' = [gw EXCEPT ![i] = [to |-> r.to] @@ r.gw]
    /\ UNCHANGED <<envVars, acked, calcVars>>

\* openaiChatWithRetry issues openai.chat.completions.create.
GwIssue(i) ==
    /\ pc[i] = "gateway"
    /\ gw[i].st = "call"
    /\ gw' = [gw EXCEPT ![i].st = "await", ![i].inflight = @ + 1]
    /\ UNCHANGED <<envVars, pc, branch, deliveries, lineResults, acked, calcVars>>

\* The call comes back.
GwReturn(i) ==
    /\ pc[i] = "gateway"
    /\ gw[i].st = "await"
    /\ \E out \in remote :
         gw' = [gw EXCEPT ![i] = [to |-> gw[i].to] @@ afterCall(gw[i], out)]
    /\ UNCHANGED <<envVars, pc, branch, deliveries, lineResults, acked, calcVars>>

\* The backoff timer of openaiChatWithRetry fires: attempt += 1, loop again.
GwWake(i) ==
    /\ pc[i] = "gateway"
    /\ gw[i].st = "sleep"
    /\ gw' = wake(gw, i)
    /\ UNCHANGED <<envVars, pc, branch, deliveries, lineResults, acked, calcVars>>

\* askOpenAIForLaborHelp has returned: the handler delivers and returns.
Resume(i) ==
    /\ pc[i] = "gateway"
    /\ gw[i].st = "ret"
    /\ LET sent == embed(afterGateway(branch[i], seenBy(gw[i]), gw[i].to),
                         gw[i].answer)
       IN  /\ deliveries' = [deliveries EXCEPT ![i] = @ \o sent]
           /\ \E rs \in callResults(Len(sent)) :
                 lineResults' = [lineResults EXCEPT ![i] = @ \o rs]
    /\ pc' = [pc EXCEPT ![i] = "done"]
    /\ UNCHANGED <<envVars, branch, gw, acked, calcVars>>

\* Mutant of PromiseAll: the first callback to end is enough.
PromiseRace(pcs) == \E i \in DOMAIN pcs : pcs[i] = "done"

\* await Promise.all(events.map(async (event) => {...})): every callback has
\* ended (none rejects, each body being inside try/catch).
PromiseAll(pcs) == \A i \in DOMAIN pcs : pcs[i] = "done"

\* await Promise.all(...) is over: res.status(200).json({status: "ok"}).
Ack ==
    /\ PromiseAll(pc)
    /\ ~acked
    /\ acked' = TRUE
    /\ UNCHANGED <<envVars, pc, branch, deliveries, lineResults, gw, calcVars>>

Next ==
    \/ \E i \in DOMAIN events : Dispatch(i)
    \/ \E i \in DOMAIN events : GwIssue(i)
    \/ \E i \in DOMAIN events : GwReturn(i)
    \/ \E i \in DOMAIN events : GwWake(i)
    \/ \E i \in DOMAIN events : Resume(i)
    \/ Ack

Spec == Init /\ [][Next]_vars

\* A webhook request with a batch of events, while LINE's API accepts or
\* rejects each call.
InitBatch ==
    /\ hasOpenAI = TRUE
    /\ articles = loadArticles("loaded")
    /\ faqs = loadFaqs("loaded")
    /\ line = "failing"
    /\ remote = BatchOutcomes
    /\ \E batch \in Batches : InitEvents(batch)

SpecBatch == InitBatch /\ [][Next]_vars

\* Every callback that can run does run (the event loop), every remote call
\* comes back (each has a timeout) and every timer fires.
SpecBatchLive == InitBatch /\ [][Next]_vars /\ WF_vars(Next)

\* A request with one event that makes the handler ask the gateway, every
\* callback, remote call and timer going on to its end.
InitGateway ==
    /\ hasOpenAI = TRUE
    /\ articles = loadArticles("loaded")
    /\ faqs = loadFaqs("loaded")
    /\ line = "up"
    /\ remote = Outcomes
    /\ \E e \in GatewayEvents : InitEvents(<<e>>)

\* The steps of askOpenAIForLaborHelp for any event of the request.
GatewaySteps == \E i \in DOMAIN events : GwIssue(i) \/ GwReturn(i) \/ GwWake(i)

\* Every remote call comes back (each has a 10 s timeout) and every backoff
\* timer fires.
SpecGatewayLive == InitGateway /\ [][Next]_vars /\ WF_vars(GatewaySteps)

\* The reference data could not be loaded.
InitLoadFailed ==
    /\ hasOpenAI \in BOOLEAN
    /\ \E file \in {"missing", "badJson", "noArticles"} :
         /\ articles = loadArticles(file)
         /\ faqs = loadFaqs(file)
    /\ line = "up"
    /\ remote = Outcomes
    /\ \E e \in Events : InitEvents(<<e>>)

SpecLoadFailed == InitLoadFailed /\ [][Next]_vars

\* The calculator called on its own.
InitOt ==
    /\ hasOpenAI = FALSE
    /\ articles = loadArticles("loaded")
    /\ faqs = loadFaqs("loaded")
    /\ line = "up"
    /\ remote = Outcomes
    /\ events = <<>>
    /\ pc = <<>>
    /\ branch = <<>>
    /\ deliveries = <<>>
    /\ lineResults = <<>>
    /\ gw = <<>>
    /\ acked = FALSE
    /\ otInput \in OtInputs
    /\ otOutput = None
    /\ otArgs = IdleArgs
    /\ call = IdleCall
    /\ retry = IdleRetry

\* const result = computeOtPay(params)
ComputeOt ==
    /\ otOutput = None
    /\ otOutput' = Some(computeOtPay(otInput))
    /\ UNCHANGED <<envVars, pc, branch, deliveries, lineResults, gw, acked,
                   otInput, otArgs, call, retry>>

NextOt == ComputeOt

SpecOt == InitOt /\ [][NextOt]_vars

\* parseOtArgs called on its own, on the keyword followed by tokens.
InitArgs ==
    /\ hasOpenAI = FALSE
    /\ articles = loadArticles("loaded")
    /\ faqs = loadFaqs("loaded")
    /\ line = "up"
    /\ remote = Outcomes
    /\ events = <<>>
    /\ pc = <<>>
    /\ branch = <<>>
    /\ deliveries = <<>>
    /\ lineResults = <<>>
    /\ gw = <<>>
    /\ acked = FALSE
    /\ otInput = OtDefaults
    /\ otOutput = None
    /\ \E text \in OtTexts : otArgs = [IdleArgs EXCEPT !.text = text]
    /\ call = IdleCall
    /\ retry = IdleRetry

\* One turn of tokens.forEach((t) => {...}).
ParseToken ==
    /\ otArgs.done < Len(otTokens(otArgs.text))
    /\ otArgs' = [otArgs EXCEPT
                     !.done = @ + 1,
                     !.before = otArgs.params,
                     !.params = applyToken(otArgs.params,
                                           otTokens(otArgs.text)[otArgs.done + 1])]
    /\ UNCHANGED <<envVars, pc, branch, deliveries, lineResults, gw, acked,
                   otInput, otOutput, call, retry>>

NextArgs == ParseToken

SpecArgs == InitArgs /\ [][NextArgs]_vars

\* The handler is not running and the calculator is not being called.
InitCall(fn, args) ==
    /\ hasOpenAI = FALSE
    /\ faqs = loadFaqs("loaded")
    /\ line = "up"
    /\ remote = Outcomes
    /\ events = <<>>
    /\ pc = <<>>
    /\ branch = <<>>
    /\ deliveries = <<>>
    /\ lineResults = <<>>
    /\ gw = <<>>
    /\ acked = FALSE
    /\ otInput = OtDefaults
    /\ otOutput = None
    /\ otArgs = IdleArgs
    /\ \E arg \in args : call = [fn |-> fn, arg |-> arg, rets |-> <<>>]
    /\ retry = IdleRetry

\* extractArticleNumber called on one text.
InitExtract ==
    /\ articles = loadArticles("loaded")
    /\ InitCall("extractArticleNumber", RefTexts)

CallExtractArticleNumber ==
    /\ call.fn = "extractArticleNumber"
    /\ Len(call.rets) < MaxCalls
    /\ call' = [call EXCEPT !.rets = Append(@, extractArticleNumber(call.arg))]
    /\ UNCHANGED <<envVars, pc, branch, deliveries, lineResults, gw, acked,
                   otInput, otOutput, otArgs, retry>>

NextExtract == CallExtractArticleNumber

SpecExtract == InitExtract /\ [][NextExtract]_vars

\* extractLawNumbers called on a text made of pieces.
InitLinks ==
    /\ articles = loadArticles("loaded")
    /\ InitCall("extractLawNumbers", LinkTexts)

CallExtractLawNumbers ==
    /\ call.fn = "extractLawNumbers"
    /\ Len(call.rets) < MaxCalls
    /\ call' = [call EXCEPT
                   !.rets = Append(@, extractLawNumbers(Concat(call.arg)))]
    /\ UNCHANGED <<envVars, pc, branch, deliveries, lineResults, gw, acked,
                   otInput, otOutput, otArgs, retry>>

NextLinks == CallExtractLawNumbers

SpecLinks == InitLinks /\ [][NextLinks]_vars

\* openaiChatWithRetry called on its own, with its retries option.
InitRetry ==
    /\ articles = loadArticles("loaded")
    /\ hasOpenAI = TRUE
    /\ faqs = loadFaqs("loaded")
    /\ line = "up"
    /\ remote = RetryOutcomes
    /\ events = <<>>
    /\ pc = <<>>
    /\ branch = <<>>
    /\ deliveries = <<>>
    /\ lineResults = <<>>
    /\ gw = <<>>
    /\ acked = FALSE
    /\ otInput = OtDefaults
    /\ otOutput = None
    /\ otArgs = IdleArgs
    /\ call = IdleCall
    /\ \E n \in 0..MaxRetries :
          retry = [IdleRetry EXCEPT !.retries = n, !.st = "call"]

\* await openai.chat.completions.create(payload, { timeout }) comes back.
RetryCallReturns ==
    /\ retry.st = "call"
    /\ \E out \in remote, jitter \in Jitters :
          retry' = retryAfterCall(retry, out, jitter)
    /\ UNCHANGED <<envVars, pc, branch, deliveries, lineResults, gw, acked,
                   otInput, otOutput, otArgs, call>>

\* The timer of the wait fires: attempt += 1, and the loop goes round.
RetryWakes ==
    /\ retry.st = "sleep"
    /\ retry' = [retry EXCEPT !.st = "call", !.attempt = @ + 1]
    /\ UNCHANGED <<envVars, pc, branch, deliveries, lineResults, gw, acked,
                   otInput, otOutput, otArgs, call>>

NextRetry == RetryCallReturns \/ RetryWakes

SpecRetry == InitRetry /\ [][NextRetry]_vars

\* replyText or pushText called on a text of some length.
InitLength ==
    /\ articles = loadArticles("loaded")
    /\ \/ InitCall("replyText", LongTexts)
       \/ InitCall("pushText", LongTexts)

\* await client.replyMessage(replyToken, msg)
CallReplyText ==
    /\ call.fn = "replyText"
    /\ Len(call.rets) < MaxCalls
    /\ call' = [call EXCEPT
                   !.rets = Append(@, [via |-> "reply", msg |-> textMessage(call.arg)])]
    /\ UNCHANGED <<envVars, pc, branch, deliveries, lineResults, gw, acked,
                   otInput, otOutput, otArgs, retry>>

\* await client.pushMessage(to, msg)
CallPushText ==
    /\ call.fn = "pushText"
    /\ Len(call.rets) < MaxCalls
    /\ call' = [call EXCEPT
                   !.rets = Append(@, [via |-> "push", msg |-> textMessage(call.arg)])]
    /\ UNCHANGED <<envVars, pc, branch, deliveries, lineResults, gw, acked,
                   otInput, otOutput, otArgs, retry>>

NextLength == CallReplyText \/ CallPushText

SpecLength == InitLength /\ [][NextLength]_vars

\* findArticleByKeyword called, up to MaxCalls times, on one text, over a
\* record list.
InitKeyword ==
    /\ articles \in RecordLists
    /\ InitCall("findArticleByKeyword", KeywordQueries)

CallFindArticleByKeyword ==
    /\ call.fn = "findArticleByKeyword"
    /\ Len(call.rets) < MaxCalls
    /\ call' = [call EXCEPT !.rets = Append(@, findArticleByKeyword(call.arg))]
    /\ UNCHANGED <<envVars, pc, branch, deliveries, lineResults, gw, acked,
                   otInput, otOutput, otArgs, retry>>

NextKeyword == CallFindArticleByKeyword

SpecKeyword == InitKeyword /\ [][NextKeyword]_vars

(***************************************************************************)
(* The claims.                                                             *)
(***************************************************************************)
Evs == DOMAIN events

IsTextMessage(e) == e.type = "message" /\ e.msgType = "text"

\* The event has been dispatched: its branch is decided.
Dispatched(i) == pc[i] # "start"

\* A key=value token.
IsKeyValueToken(u) == Len(splitOn(unitChars(u), {"="}, <<>>)) = 2

\* The text is the calculator keyword followed by whitespace-separated
\* key=value tokens, the form the calculator's own help text documents
\* (buildOtHelpText: 試算加班費 時薪=183 平日=2).
IsOtArgsMessage(text) ==
    /\ startsWith(text, OtKeyword \o <<" ">>)
    /\ LET ts == tokensOf(SubSeq(text, Len(OtKeyword) + 1, Len(text)))
       IN  /\ ts # <<>>
           /\ \A k \in 1..Len(ts) : Len(ts[k]) = 1 /\ IsKeyValueToken(ts[k][1])

\* The entry condition of the calculator command as a user of the bot reads
\* it: the keyword alone, the keyword with 說明, the keyword followed by
\* whitespace-separated key=value tokens, or 再試一筆.
IsOtCommand(text) ==
    LET normalized == normalize(text)
    IN  \/ normalized = OtKeyword
        \/ (startsWith(normalized, OtKeyword) /\ includes(normalized, <<"ShuoMing">>))
        \/ IsOtArgsMessage(text)
        \/ normalized = <<"ZaiShiYiBi">>

\* The first branch, in the order sentinel, exact command, AI prefix,
\* calculator command, article reference, FAQ, article keyword, fallback,
\* whose entry condition holds for a text message.
FirstMatching(e) ==
    LET t == e.text
        no == extractArticleNumber(t)
    IN  IF e.replyToken = VerifyToken THEN "sentinel"
        ELSE IF normalize(t) \in MenuCommands \cup CategoryCommands THEN "command"
        ELSE IF isAiPrefixed(t) THEN "ai"
        ELSE IF IsOtCommand(t) THEN "calculator"
        ELSE IF no # None /\ no[1] # 0 THEN "article"
        ELSE IF findBestFaq(t) # None THEN "faq"
        ELSE IF findArticleByKeyword(t) # None THEN "keyword"
        ELSE "fallback"

\* C1: every text message is resolved by the first branch, in the order
\* sentinel, exact command, AI prefix, calculator command, article
\* reference, FAQ, article keyword, gateway fallback, whose entry condition
\* holds for it.
C1_FirstMatchWins ==
    \A i \in Evs :
        (Dispatched(i) /\ IsTextMessage(events[i]))
            => branch[i] = FirstMatching(events[i])

\* C2: a text made of the calculator keyword followed by whitespace-separated
\* key=value tokens is resolved by the calculator branch, with the computed
\* breakdown or the InvalidWage message as its one reply.
C2_CalculatorArgsResolved ==
    \A i \in Evs :
        (/\ Dispatched(i)
         /\ IsTextMessage(events[i])
         /\ events[i].replyToken # VerifyToken
         /\ IsOtArgsMessage(events[i].text))
            => /\ branch[i] = "calculator"
               /\ deliveries[i] \in {<<reply("otResult")>>, <<reply("otInvalidWage")>>}

\* The event is a text message in AI mode with a question.
IsAiQuestion(e) ==
    /\ IsTextMessage(e)
    /\ e.replyToken # VerifyToken
    /\ isAiPrefixed(e.text)
    /\ aiQuestionOf(aiRaw(e.text)) # <<>>

Active(g) == g.st \in {"call", "await", "sleep"}

\* The place of a tier in the ladder.
rank(tier) ==
    CASE tier \in {"detailed#1", "concise#1"} -> 1
      [] tier = "detailed#2" -> 2
      [] tier = "concise#fallback" -> 3

\* A call that ends its tier by failure: not retried.
Exhausting(e) ==
    \/ e.outcome = "fatal"
    \/ (e.outcome = "transient" /\ e.attempt >= Retries)

TierExhausted(g, tier) ==
    \E k \in 1..Len(g.log) : g.log[k].tier = tier /\ Exhausting(g.log[k])

\* The tiers the request has started so far.
TiersStarted(g) ==
    {g.log[k].tier : k \in 1..Len(g.log)}
    \cup (IF Active(g) THEN {g.tier} ELSE {})

\* The calls of the log, and the call being made, never go back to an
\* earlier tier of the ladder: every tier is one unbroken run of calls.
TiersInOrder(g) ==
    /\ \A j, k \in 1..Len(g.log) :
         j < k => rank(g.log[j].tier) <= rank(g.log[k].tier)
    /\ Active(g) => \A j \in 1..Len(g.log) : rank(g.log[j].tier) <= rank(g.tier)
    /\ \A t \in TiersStarted(g) :
         Cardinality({k \in 1..Len(g.log) :
                        g.log[k].tier = t /\ Exhausting(g.log[k])}) <= 1

\* The ladder of a detailed-mode request without the clause on none.
DetailedOrder(g) ==
    /\ TiersStarted(g) \subseteq {"detailed#1", "detailed#2", "concise#fallback"}
    /\ TiersInOrder(g)
    /\ "detailed#2" \in TiersStarted(g) => TierExhausted(g, "detailed#1")
    /\ "concise#fallback" \in TiersStarted(g) => TierExhausted(g, "detailed#2")

ReturnedNone(g) == g.st = "ret" /\ g.result = "none"

\* C4 as stated: a detailed-mode request runs detailed, then reduced-token
\* detailed, then concise, each at most once and each only after the one
\* before is exhausted, and none is returned only after the concise tier is
\* exhausted.
C4_NoneOnlyAfterConcise ==
    \A i \in Evs :
        gw[i].mode = "detailed"
            => /\ DetailedOrder(gw[i])
               /\ ReturnedNone(gw[i]) => TierExhausted(gw[i], "concise#fallback")

\* C4 amended: the same ladder, and none is returned only after the concise
\* tier is exhausted or after a call of some tier came back with empty
\* content.
C4_DetailedLadder ==
    \A i \in Evs :
        gw[i].mode = "detailed"
            => LET g == gw[i]
               IN  /\ DetailedOrder(g)
                   /\ ReturnedNone(g) =>
                        \/ TierExhausted(g, "concise#fallback")
                        \/ g.log[Len(g.log)].outcome = "empty"

\* A detailed-mode request that went down the whole ladder to none.
C4_Witness ==
    \E i \in Evs :
        /\ gw[i].mode = "detailed"
        /\ ReturnedNone(gw[i])
        /\ TierExhausted(gw[i], "detailed#1")
        /\ TierExhausted(gw[i], "detailed#2")
        /\ TierExhausted(gw[i], "concise#fallback")

\* C5 as stated: in a concise-mode request, once the concise tier is
\* exhausted the result is none and no other call or tier follows.
C5_ConciseExhaustedIsNone ==
    \A i \in Evs :
        (gw[i].mode = "concise" /\ TierExhausted(gw[i], "concise#1"))
            => /\ ReturnedNone(gw[i])
               /\ TiersStarted(gw[i]) = {"concise#1"}

\* C5 amended: in a concise-mode request the first concise tier, once
\* exhausted, is followed by one more tier, the concise fallback, and by no
\* other; once the concise fallback is exhausted the result is none and no
\* call is made or in flight.
C5_ConciseThenFallback ==
    \A i \in Evs :
        gw[i].mode = "concise"
            => LET g == gw[i]
               IN  /\ TiersStarted(g) \subseteq {"concise#1", "concise#fallback"}
                   /\ TiersInOrder(g)
                   /\ "concise#fallback" \in TiersStarted(g)
                        <=> TierExhausted(g, "concise#1")
                   /\ TierExhausted(g, "concise#fallback")
                        => /\ ReturnedNone(g)
                           /\ g.inflight = 0
                           /\ Exhausting(g.log[Len(g.log)])
                           /\ g.log[Len(g.log)].tier = "concise#fallback"

\* A concise-mode request whose two tiers are both exhausted.
C5_Witness ==
    \E i \in Evs :
        /\ gw[i].mode = "concise"
        /\ TierExhausted(gw[i], "concise#1")
        /\ TierExhausted(gw[i], "concise#fallback")
        /\ ReturnedNone(gw[i])

\* The tiers of the calls of the log, in order.
LogTiers(g) == [k \in 1..Len(g.log) |-> g.log[k].tier]

\* Some three calls in a row failed transiently.
ThreeTransientInARow(g) ==
    \E k \in 1..(Len(g.log) - 2) :
        \A d \in 0..2 : g.log[k + d].outcome = "transient"

\* One retry sequence of the reduced tier, then one of the concise tier.
OneReducedThenOneConcise(g) ==
    LogTiers(g) = <<"detailed#1", "detailed#1", "detailed#2", "detailed#2",
                    "concise#fallback", "concise#fallback">>

\* C6 as stated: a detailed-mode request that met three consecutive
\* transient failures went through one reduced-detail retry sequence, then
\* one concise retry sequence, and returned none.
C6_ThreeTransientGiveNone ==
    \A i \in Evs :
        (gw[i].mode = "detailed" /\ gw[i].st = "ret"
         /\ ThreeTransientInARow(gw[i]))
            => ReturnedNone(gw[i]) /\ OneReducedThenOneConcise(gw[i])

\* C6 amended: a detailed-mode request all of whose remote calls failed
\* transiently made six calls, two per tier: the detailed retry sequence,
\* then exactly one reduced-detail retry sequence, then exactly one concise
\* retry sequence, and returned none.
C6_AllTransientGiveNone ==
    \A i \in Evs :
        (/\ gw[i].mode = "detailed"
         /\ gw[i].st = "ret"
         /\ gw[i].log # <<>>
         /\ \A k \in 1..Len(gw[i].log) : gw[i].log[k].outcome = "transient")
            => ReturnedNone(gw[i]) /\ OneReducedThenOneConcise(gw[i])

\* A detailed-mode request that returned after six transient failures.
C6_Witness ==
    \E i \in Evs :
        /\ gw[i].mode = "detailed"
        /\ gw[i].st = "ret"
        /\ Len(gw[i].log) = 6
        /\ \A k \in 1..6 : gw[i].log[k].outcome = "transient"

\* The calls the request has issued in a tier: those that came back and the
\* one in flight.
CallsIssued(g, tier) ==
    Cardinality({k \in 1..Len(g.log) : g.log[k].tier = tier})
    + (IF g.st = "await" /\ g.tier = tier THEN 1 ELSE 0)

\* C7: within a tier a call is issued again only after a transient failure
\* (timeout, connection reset, DNS failure, 5xx) of the call before it, a
\* tier issues at most Retries + 1 calls, and a call that succeeds is the
\* last call of the request.
C7_RetryOnlyTransient ==
    \A i \in Evs :
        LET g == gw[i]
            n == Len(g.log)
        IN  /\ \A k \in 1..n :
                 g.log[k].attempt > 0
                    => /\ k > 1
                       /\ g.log[k - 1].tier = g.log[k].tier
                       /\ g.log[k - 1].attempt = g.log[k].attempt - 1
                       /\ g.log[k - 1].outcome = "transient"
            /\ (Active(g) /\ g.attempt > 0)
                    => /\ n > 0
                       /\ g.log[n].tier = g.tier
                       /\ g.log[n].attempt = g.attempt - 1
                       /\ g.log[n].outcome = "transient"
            /\ g.st = "sleep"
                    => (n > 0 /\ g.log[n].outcome = "transient"
                        /\ g.log[n].tier = g.tier)
            /\ \A t \in TiersStarted(g) : CallsIssued(g, t) <= Retries + 1
            /\ \A k \in 1..n :
                 g.log[k].outcome \in {"ok", "empty"}
                    => (k = n /\ g.st = "ret")

\* A call issued again after a transient failure has come back.
C7_Witness ==
    \E i \in Evs :
        /\ Len(gw[i].log) >= 2
        /\ gw[i].log[1].outcome = "transient"
        /\ gw[i].log[2].tier = gw[i].log[1].tier
        /\ gw[i].log[2].attempt = 1
        /\ gw[i].log[2].outcome = "ok"

\* The ladder as the claims state it: detailed, reduced-token detailed,
\* concise for a detailed-mode request; the tier after the first tier of a
\* concise-mode request is the concise fallback.
LadderNext(mode, tier) ==
    IF tier = "concise#fallback" THEN "none"
    ELSE IF tier = "detailed#1" /\ mode = "detailed" THEN "detailed#2"
    ELSE "concise#fallback"

\* C8: a call that fails with a non-transient failure is the last call of
\* its tier: no backoff and no retry follow it, and the gateway goes on to
\* the first call of the next tier of the ladder, or returns none when the
\* tier was the last.
C8_FatalEndsTier ==
    \A i \in Evs :
        LET g == gw[i]
            n == Len(g.log)
        IN  \A k \in 1..n :
                g.log[k].outcome = "fatal"
                    => LET nt == LadderNext(g.mode, g.log[k].tier)
                       IN  /\ \A j \in (k + 1)..n : g.log[j].tier # g.log[k].tier
                           /\ k < n => (g.log[k + 1].tier = nt
                                        /\ g.log[k + 1].attempt = 0)
                           /\ k = n =>
                                IF g.log[k].tier = "concise#fallback"
                                THEN ReturnedNone(g)
                                ELSE /\ g.st \in {"call", "await"}
                                     /\ g.tier = nt
                                     /\ rank(nt) > rank(g.log[k].tier)
                                     /\ g.attempt = 0

\* A first call that failed with a client error, the next tier's first call
\* having come back after it.
C8_Witness ==
    \E i \in Evs :
        /\ Len(gw[i].log) >= 2
        /\ gw[i].log[1].outcome = "fatal"
        /\ gw[i].log[1].attempt = 0
        /\ gw[i].log[2].tier # gw[i].log[1].tier

\* C9: whatever the remote calls come back with, and also without a client,
\* askOpenAIForLaborHelp returns a text or none: no exception reaches the
\* handler.
C9_GatewayNeverThrows ==
    \A i \in Evs :
        /\ gw[i].result \in {"pending", "text", "none"}
        /\ gw[i].st = "ret" => gw[i].result \in {"text", "none"}
        /\ (pc[i] = "done" /\ gw[i].mode # "none") => gw[i].st = "ret"

\* The gateway returned none after the last call of its last tier failed,
\* and the handler went on to its end.
C9_Witness ==
    \E i \in Evs :
        /\ hasOpenAI
        /\ ReturnedNone(gw[i])
        /\ TierExhausted(gw[i], "concise#fallback")
        /\ pc[i] = "done"

\* C10: at most one remote call of a request is in flight: a call is issued
\* only when none is in flight, a retry or a lower tier's call only after
\* the call before it has come back.
C10_OneCallInFlight ==
    \A i \in Evs :
        /\ gw[i].inflight \in {0, 1}
        /\ gw[i].inflight = 1 <=> gw[i].st = "await"

\* A retry in flight after a call that timed out, and a lower tier's call in
\* flight.
C10_Witness ==
    \E i \in Evs :
        /\ gw[i].st = "await"
        /\ gw[i].tier = "concise#fallback"
        /\ gw[i].attempt = 1
        /\ gw[i].inflight = 1

(***************************************************************************)
(* The citation list of a returned answer.                                 *)
(***************************************************************************)
\* The gateway returned a string made from a completion.
ReturnedText(g) == g.st = "ret" /\ g.result = "text"

\* The content of the completion the returned string was made from.
Generated(g) == g.log[Len(g.log)].content

\* The returned string `t` is `text` followed by a citation list that holds
\* one link per distinct article number the global extractor finds in
\* `text`, each to the page of its article; it is `text` alone when the
\* extractor finds none.
IsTextWithCitations(t, text) ==
    LET found == extractLawNumbers(text)
        nums == {found[k] : k \in 1..Len(found)}
    IN  /\ t.answer = text
        /\ Len(t.links) = Cardinality(nums)
        /\ {t.links[k].no : k \in 1..Len(t.links)} = nums
        /\ \A k \in 1..Len(t.links) :
              t.links[k].url = [page |-> "LawSingle", flno |-> t.links[k].no]

\* C11 as stated: whichever tier succeeds, the returned text is the
\* generated text followed by a citation list with one link per distinct
\* article number the global extractor finds in it, and the generated text
\* unchanged when the extractor finds none.
C11_GeneratedTextThenLinks ==
    \A i \in Evs :
        ReturnedText(gw[i])
            => IsTextWithCitations(gw[i].answer[1], Generated(gw[i]))

\* C11 amended: whichever tier succeeds, the returned text is the generated
\* text without its leading and trailing whitespace, followed by a citation
\* list with one link per distinct article number (1..999, as 第N條 with
\* half-width digits) the global extractor finds in it, in ascending order
\* of the numbers; it is the trimmed text alone when the extractor finds
\* none.
C11_TrimmedTextThenLinks ==
    \A i \in Evs :
        ReturnedText(gw[i])
            => LET t == gw[i].answer[1]
               IN  /\ gw[i].answer # None
                   /\ IsTextWithCitations(t, trim(Generated(gw[i])))
                   /\ \A j, k \in 1..Len(t.links) :
                         j < k => t.links[j].no < t.links[k].no
                   /\ \A k \in 1..Len(t.links) : t.links[k].no \in 1..999

\* The last try returned a text whose completion cites 第24條 twice and
\* 第 7 條 once: two links, 7 then 24.
C11_Witness ==
    \E i \in Evs :
        /\ ReturnedText(gw[i])
        /\ gw[i].tier = "concise#fallback"
        /\ Generated(gw[i]) # trim(Generated(gw[i]))
        /\ Len(gw[i].answer[1].links) = 2
        /\ gw[i].answer[1].links[1].no = 7
        /\ gw[i].answer[1].links[2].no = 24

(***************************************************************************)
(* The claims on batches of events.                                        *)
(***************************************************************************)
\* The messages of the deliveries, in order.
Bodies(ds) == [k \in 1..Len(ds) |-> ds[k].body]

\* The gateway handed the handler a non-empty text.
GaveText(g) ==
    /\ ReturnedText(g)
    /\ (g.answer[1].answer # <<>> \/ g.answer[1].links # <<>>)

\* What is delivered for an event handled on its own, given what its own
\* gateway call returned: nothing for the Verify event and for an event that
\* is neither a follow nor a text message, the welcome for a follow, and for
\* a text message the messages of the first branch that matches it.
RepliesAlone(e, g) ==
    IF e.replyToken = "00000000000000000000000000000000" THEN {<<>>}
    ELSE IF e.type = "follow" THEN {<<"welcome">>}
    ELSE IF ~IsTextMessage(e) THEN {<<>>}
    ELSE LET b == FirstMatching(e)
         IN  CASE b = "command" -> {<<"menu">>, <<"category">>}
               [] b = "ai" ->
                    IF ~IsAiQuestion(e) THEN {<<"aiNoQuestion">>}
                    ELSE IF g.mode = "none" THEN {<<"aiThinking", "aiNoKey">>}
                    ELSE IF GaveText(g) THEN {<<"aiThinking", "aiAnswer">>}
                    ELSE {<<"aiThinking", "aiDegraded">>}
               [] b = "calculator" ->
                    {<<"otFlex">>, <<"otHelp">>, <<"otResult">>, <<"otInvalidWage">>}
               [] b = "article" ->
                    IF g.mode = "none" THEN {<<"article">>}
                    ELSE IF GaveText(g) THEN {<<"articleByAi">>}
                    ELSE {<<"articleNotAvailable">>}
               [] b = "faq" -> {<<"faq">>}
               [] b = "keyword" -> {<<"articleByKeyword">>}
               [] b = "fallback" ->
                    IF GaveText(g) THEN {<<"fallbackByAi">>}
                    ELSE {<<"fallbackGuidance">>}

\* The processing of event i has failed somewhere: it threw, its gateway
\* call gave up, or LINE rejected a delivery.
Failed(i) ==
    \/ branch[i] = "threw"
    \/ ReturnedNone(gw[i])
    \/ \E k \in 1..Len(lineResults[i]) : lineResults[i][k] = "rejected"

\* The callback of event i can take a step.
CanStep(i) ==
    ENABLED (Dispatch(i) \/ GwIssue(i) \/ GwReturn(i) \/ GwWake(i) \/ Resume(i))

\* C12: whatever fails while a sibling is processed (a throw in the
\* resolver, the gateway giving up, a rejected delivery), no event of the
\* batch is aborted or altered: until it is done its callback can go on, and
\* once done it has made the deliveries it would make alone.
C12_SiblingsUnaffected ==
    \A i \in Evs :
        /\ pc[i] \in {"start", "gateway", "done"}
        /\ pc[i] # "done" => CanStep(i)
        /\ pc[i] = "done"
              => Bodies(deliveries[i]) \in RepliesAlone(events[i], gw[i])

\* The first event threw, the second was then answered through the gateway
\* after a failed call, and a third way to fail, a rejected delivery, hit
\* the answer.
C12_Witness ==
    \E i, j \in Evs :
        /\ i < j
        /\ branch[i] = "threw"
        /\ pc[j] = "done"
        /\ Len(gw[j].log) >= 2
        /\ Bodies(deliveries[j]) = <<"fallbackByAi">>
        /\ lineResults[j] = <<"rejected">>

\* C13: for every batch, whatever fails while its events are processed,
\* the webhook eventually sends its 200, and once sent it stays sent (the
\* handler sends nothing more).
C13_EventuallyAcked == <>[]acked

\* The 200 was sent for a batch in which one event threw and the other
\* got no answer from the gateway and had its delivery rejected.
C13_Witness ==
    /\ acked
    /\ \E i, j \in Evs :
          /\ branch[i] = "threw"
          /\ ReturnedNone(gw[j])
          /\ lineResults[j] = <<"rejected">>

\* All that the processing of event i has written.
PerEvent(i) == <<pc[i], branch[i], deliveries[i], lineResults[i], gw[i]>>

\* A step writes the state of at most one event, and never the state the
\* events share.
StepIsLocal ==
    /\ UNCHANGED <<hasOpenAI, articles, faqs, events>>
    /\ \A i, j \in Evs :
          (i # j /\ PerEvent(i)' # PerEvent(i)) => PerEvent(j)' = PerEvent(j)

\* Two events with the same message whose gateway calls came back alike
\* got the same deliveries.
SameInputSameDeliveries ==
    \A i, j \in Evs :
        (/\ events[i] = events[j]
         /\ pc[i] = "done" /\ pc[j] = "done"
         /\ gw[i].log = gw[j].log
         /\ gw[i].to = gw[j].to)
            => deliveries[i] = deliveries[j]

\* C14: under every interleaving of the callbacks of a batch, the
\* deliveries made for an event depend only on its own message and on what
\* its own gateway calls came back with, and no step of one event's
\* processing writes what another event's processing reads.
C14_NoInterference == [][StepIsLocal]_vars /\ []SameInputSameDeliveries

\* Two events with the same text, their remote calls in flight at the same
\* time, one of them after a failed first call.
C14_Witness ==
    \E i, j \in Evs :
        /\ i # j
        /\ events[i] = events[j]
        /\ gw[i].st = "await" /\ gw[j].st = "await"
        /\ gw[i].attempt = 1 /\ gw[j].attempt = 0

(***************************************************************************)
(* The claims on the branches of the handler.                              *)
(***************************************************************************)
\* The Verify event of LINE, and an event that is neither a follow nor a
\* text message.
IsNoOpEvent(e) ==
    \/ e.replyToken = "00000000000000000000000000000000"
    \/ (e.type # "follow" /\ ~IsTextMessage(e))

\* No remote call was made for the event and the gateway was not called.
GatewayUntouched(g) ==
    g.mode = "none" /\ g.st = "idle" /\ g.log = <<>> /\ g.inflight = 0

\* C15: the processing of a Verify event or of an event of an unknown or
\* non-text kind makes no delivery and no gateway call, and ends at once.
C15_NoOpEvents ==
    \A i \in Evs :
        IsNoOpEvent(events[i])
            => /\ deliveries[i] = <<>>
               /\ GatewayUntouched(gw[i])
               /\ pc[i] \in {"start", "done"}

\* A Verify event that carries an AI-mode question has been processed.
C15_Witness ==
    \E i \in Evs :
        /\ pc[i] = "done"
        /\ events[i].replyToken = "00000000000000000000000000000000"
        /\ IsTextMessage(events[i])
        /\ isAiPrefixed(events[i].text)
        /\ aiQuestionOf(aiRaw(events[i].text)) # <<>>
        /\ hasOpenAI

\* A text message, not the Verify event, that starts with ai/ or ai+.
IsAiMessage(e) ==
    /\ IsTextMessage(e)
    /\ e.replyToken # "00000000000000000000000000000000"
    /\ LET t == toLowerCase(trim(e.text))
       IN  t # <<>> /\ Head(t) \in {"ai/", "ai+"}

\* What follows the prefix, whether it starts with the detailed marker
\* (詳細 or 進階), and the question left once the marker is stripped.
AiRest(text) == trim(Tail(trim(text)))
HasDetailedMarker(text) ==
    AiRest(text) # <<>> /\ Head(AiRest(text)) \in {"XiangXi", "JinJie"}
AiQuestionLeft(text) ==
    IF HasDetailedMarker(text) THEN trim(Tail(AiRest(text))) ELSE AiRest(text)

\* The answer goes by push to the sender when the event names one, and by
\* reply otherwise.
AnswerVia(g) == IF g.to # "null" THEN "push" ELSE "reply"

\* The gateway was invoked for event i with the question, in detailed mode
\* exactly if the marker was there, and the answer delivered after the
\* interim reply is the gateway's text, or the local degraded message when
\* the gateway handed over none (or an empty text).
AiAnsweredByGateway(i) ==
    LET text == events[i].text
        g == gw[i]
        d == deliveries[i]
    IN  /\ g.mode = (IF HasDetailedMarker(text) THEN "detailed" ELSE "concise")
        /\ g.prompt = [kind |-> "question", text |-> AiQuestionLeft(text)]
        /\ pc[i] = "done"
              => /\ Len(d) = 2
                 /\ d[1] = reply("aiThinking")
                 /\ d[2] = IF GaveText(g)
                           THEN [via |-> AnswerVia(g), body |-> "aiAnswer",
                                 quoted |-> g.answer]
                           ELSE [via |-> AnswerVia(g), body |-> "aiDegraded",
                                 quoted |-> None]

\* The user is prompted for a question and the gateway is left alone.
AiPromptedForQuestion(i) ==
    /\ deliveries[i] = <<reply("aiNoQuestion")>>
    /\ GatewayUntouched(gw[i])
    /\ pc[i] = "done"

\* C16 as stated: in the AI-mode branch an empty question is answered by a
\* prompt for a question, without the gateway; a non-empty one invokes the
\* gateway, in detailed mode exactly if the marker was present, and the
\* gateway's result, or a degraded message when it is none, is delivered.
C16_AiBranchInvokesGateway ==
    \A i \in Evs :
        (Dispatched(i) /\ IsAiMessage(events[i]))
            => IF AiQuestionLeft(events[i].text) = <<>>
               THEN AiPromptedForQuestion(i)
               ELSE AiAnsweredByGateway(i)

\* C16 amended: the same when an OpenAI client is configured; without a
\* client a non-empty question does not invoke the gateway: after the interim
\* reply the handler delivers its own no-key message.
C16_AiBranch ==
    \A i \in Evs :
        (Dispatched(i) /\ IsAiMessage(events[i]))
            => IF AiQuestionLeft(events[i].text) = <<>>
               THEN AiPromptedForQuestion(i)
               ELSE IF hasOpenAI THEN AiAnsweredByGateway(i)
               ELSE /\ GatewayUntouched(gw[i])
                    /\ pc[i] = "done"
                    /\ Bodies(deliveries[i]) = <<"aiThinking", "aiNoKey">>

\* A question with the detailed marker, answered by the gateway in detailed
\* mode, the answer pushed to the sender.
C16_Witness ==
    \E i \in Evs :
        /\ IsAiMessage(events[i])
        /\ HasDetailedMarker(events[i].text)
        /\ AiQuestionLeft(events[i].text) # <<>>
        /\ pc[i] = "done"
        /\ gw[i].mode = "detailed"
        /\ GaveText(gw[i])
        /\ deliveries[i][2].via = "push"
        /\ deliveries[i][2].quoted = gw[i].answer

\* A text message, not the Verify event, that reaches the article step of
\* the handler (it is no AI-mode message, calculator command or command),
\* in which the single-reference extractor finds an article number the
\* index has no record of.
RefersToAbsentArticle(e) ==
    /\ IsTextMessage(e)
    /\ e.replyToken # VerifyToken
    /\ ~isAiPrefixed(e.text)
    /\ ~IsOtCommand(e.text)
    /\ normalize(e.text) \notin MenuCommands \cup CategoryCommands
    /\ extractArticleNumber(e.text) # None
    /\ findArticleByNumber(extractArticleNumber(e.text)) = None

\* Event i is resolved by the article branch through one invocation of the
\* gateway, in concise mode, with the synthesized prompt about article n;
\* its one reply is the gateway's text, or the static not-available message
\* when the gateway handed over none (or an empty text).
AbsentArticleExplained(i, n) ==
    /\ branch[i] = "article"
    /\ gw[i].mode = "concise"
    /\ gw[i].prompt = [kind |-> "explainArticle", no |-> n]
    /\ pc[i] \in {"gateway", "done"}
    /\ pc[i] = "gateway" => deliveries[i] = <<>>
    /\ pc[i] = "done" =>
          deliveries[i] = IF GaveText(gw[i])
                          THEN <<[via |-> "reply", body |-> "articleByAi",
                                  quoted |-> gw[i].answer]>>
                          ELSE <<reply("articleNotAvailable")>>

\* C17 as stated: when the single-reference extractor yields an article
\* number N and the index has no record N, the gateway is invoked once, in
\* concise mode, with a synthesized prompt about article N; the reply is the
\* gateway's text, or the static not-available message when there is none,
\* and the FAQ and keyword branches are not entered.
C17_AnyAbsentArticleExplained ==
    \A i \in Evs :
        (Dispatched(i) /\ RefersToAbsentArticle(events[i]))
            => AbsentArticleExplained(i, extractArticleNumber(events[i].text)[1])

\* C17 amended: the same for every article number N >= 1; the number 0
\* (第0條) is not taken as a reference, and the message goes on to the FAQ,
\* keyword and fallback branches, the gateway, if it is invoked, being
\* given the user's text.
C17_AbsentArticleExplained ==
    \A i \in Evs :
        (Dispatched(i) /\ RefersToAbsentArticle(events[i]))
            => LET n == extractArticleNumber(events[i].text)[1]
               IN  IF n >= 1 THEN AbsentArticleExplained(i, n)
                   ELSE /\ branch[i] \in {"faq", "keyword", "fallback"}
                        /\ gw[i].mode # "none" =>
                              gw[i].prompt = [kind |-> "userText",
                                              text |-> events[i].text]

\* A reference to article 99, which the index does not hold, answered with
\* the text the gateway generated for the synthesized prompt.
C17_Witness ==
    \E i \in Evs :
        /\ RefersToAbsentArticle(events[i])
        /\ extractArticleNumber(events[i].text) = Some(99)
        /\ pc[i] = "done"
        /\ gw[i].prompt = [kind |-> "explainArticle", no |-> 99]
        /\ GaveText(gw[i])
        /\ Bodies(deliveries[i]) = <<"articleByAi">>

\* A text message, not the Verify event, that is no command, AI-mode
\* message or calculator message.
IsLookupMessage(e) ==
    /\ IsTextMessage(e)
    /\ e.replyToken # VerifyToken
    /\ ~isAiPrefixed(e.text)
    /\ ~IsOtCommand(e.text)
    /\ normalize(e.text) \notin MenuCommands \cup CategoryCommands

\* The replies made of a stored record, and the replies of the gateway
\* branches.
RecordBodies == {"article", "faq", "articleByKeyword"}
GatewayBranchBodies ==
    {"articleByAi", "articleNotAvailable", "fallbackByAi", "fallbackGuidance"}

\* C18: when the reference data cannot be loaded the index is empty and the
\* process keeps running: the lookups by number and by keyword give none for
\* every input, and every message that is no command, AI-mode or calculator
\* message is resolved by a gateway call, answered with the gateway's text
\* or with the static fallback, never with a stored record.
C18_EmptyIndexDegrades ==
    /\ articles = <<>>
    /\ faqs = <<>>
    /\ \A n \in 0..99 : findArticleByNumber(Some(n)) = None
    /\ \A i \in Evs :
          IsTextMessage(events[i]) =>
              /\ findArticleByNumber(extractArticleNumber(events[i].text)) = None
              /\ findArticleByKeyword(events[i].text) = None
              /\ findBestFaq(events[i].text) = None
    /\ \A i \in Evs :
          /\ pc[i] \in {"start", "gateway", "done"}
          /\ (Dispatched(i) /\ IsLookupMessage(events[i])) =>
                /\ branch[i] \in {"article", "fallback"}
                /\ gw[i].mode = "concise"
                /\ \A k \in 1..Len(deliveries[i]) :
                      deliveries[i][k].body \notin RecordBodies
                /\ pc[i] = "done" =>
                      /\ Len(deliveries[i]) = 1
                      /\ deliveries[i][1].body \in GatewayBranchBodies

\* With the data not loaded, a reference to article 24 and a text with the
\* keyword of a record are both answered through the gateway.
C18_Witness ==
    /\ articles = <<>>
    /\ \E i \in Evs :
          /\ IsLookupMessage(events[i])
          /\ events[i].text = <<"Di", "2", "4", "Tiao", "TeXiu">>
          /\ pc[i] = "done"
          /\ branch[i] = "article"
          /\ Bodies(deliveries[i]) \in {<<"articleByAi">>, <<"articleNotAvailable">>}

\* An hour field as the calculator takes it: absent or negative is 0.
ClampedHours(x) == IF x = None \/ x[1] < 0 THEN 0 ELSE x[1]

\* The weekday pay by the cases of its hours w (in hundredths of an hour):
\* up to 2 hours at rate r1, the next 2 at r2, those beyond 4 at r2 as well.
TieredWeekdayPay(wage, w, r1, r2) ==
    IF w <= 200 THEN wage * w * r1
    ELSE IF w <= 400 THEN wage * 200 * r1 + wage * (w - 200) * r2
    ELSE wage * 200 * r1 + wage * 200 * r2 + wage * (w - 400) * r2

\* The calculator was called with a wage > 0 and with numbers as rates.
OtComputedWithNumbers ==
    /\ otOutput # None
    /\ otInput.hourly # None /\ otInput.hourly[1] > 0
    /\ \A f \in {"weekdayRate1", "weekdayRate2", "restRate", "holidayRate"} :
          otInput[f] # None

\* C19: for every wage > 0 the unrounded weekday pay of computeOtPay is
\* wage*w*weekdayRate1 for w <= 2 weekday hours, wage*2*weekdayRate1 +
\* wage*(w-2)*weekdayRate2 for 2 < w <= 4, with the hours beyond 4 billed at
\* weekdayRate2 as well; rest-day and holiday hours are billed in full at
\* their flat rates; negative hours count as 0.
C19_TieredWeekdayFlatRest ==
    OtComputedWithNumbers =>
        LET p == otInput
            r == otOutput[1]
            wage == p.hourly[1]
        IN  /\ r.ok
            /\ r.weekdayPay =
                  Some(TieredWeekdayPay(wage, ClampedHours(p.weekday),
                                        p.weekdayRate1[1], p.weekdayRate2[1]))
            /\ r.restPay = Some(wage * ClampedHours(p.rest) * p.restRate[1])
            /\ r.holidayPay =
                  Some(wage * ClampedHours(p.holiday) * p.holidayRate[1])

\* Four and a half weekday hours, and a negative number of rest-day hours:
\* two hours at weekdayRate1, two and a half at weekdayRate2, no rest pay.
C19_Witness ==
    /\ OtComputedWithNumbers
    /\ otInput.weekday = Some(450)
    /\ otInput.rest = Some(-300)
    /\ otOutput[1].weekdayPay =
          Some(otInput.hourly[1] * (200 * otInput.weekdayRate1[1]
                                    + 250 * otInput.weekdayRate2[1]))
    /\ otOutput[1].restPay = Some(0)

\* C20: computeOtPay returns the InvalidWage failure (ok = false) exactly
\* when the wage is absent, not a number, or not positive, and a breakdown
\* (ok = true) for every wage > 0, whatever the hours and rates are.
C20_InvalidWageExactly ==
    otOutput # None =>
        LET r == otOutput[1]
            wageMissingOrNotPositive ==
                otInput.hourly = None \/ otInput.hourly[1] <= 0
        IN  /\ r.ok \in BOOLEAN
            /\ ~r.ok <=> wageMissingOrNotPositive
            /\ ~r.ok => DOMAIN r = {"ok"}
            /\ r.ok => {"weekdayPay", "restPay", "holidayPay", "total"}
                           \subseteq DOMAIN r

\* A wage of 0 is refused.
C20_Witness ==
    /\ otOutput # None
    /\ otInput.hourly = Some(0)
    /\ otOutput[1] = [ok |-> FALSE]

\* The whole number nearest to an amount x >= 0 given in millionths, the
\* upper one when x is half-way.
NearestUnit(x) ==
    LET below == x \div 1000000
    IN  IF x - below * 1000000 < (below + 1) * 1000000 - x
        THEN below ELSE below + 1

\* C21: computeOtPay rounds only at output: each subtotal displayed is the
\* unrounded pay of its category rounded once to the nearest unit, and the
\* total displayed is the rounding of the sum of the unrounded subtotals;
\* wage 183 with 2 weekday hours at rate 1.33 displays 487 for the weekday.
C21_RoundsOnlyAtOutput ==
    OtComputedWithNumbers =>
        LET p == otInput
            r == otOutput[1]
        IN  /\ r.shownWeekday = Some(NearestUnit(r.weekdayPay[1]))
            /\ r.shownRest = Some(NearestUnit(r.restPay[1]))
            /\ r.shownHoliday = Some(NearestUnit(r.holidayPay[1]))
            /\ r.shownTotal =
                  Some(NearestUnit(r.weekdayPay[1] + r.restPay[1]
                                   + r.holidayPay[1]))
            /\ (p.hourly = Some(18300) /\ p.weekday = Some(200)
                    /\ p.weekdayRate1 = Some(133))
                  => r.shownWeekday = Some(487)

\* Four weekday hours (1094.34) and 0.2 rest-day hours (73.2): the total
\* displayed, 1168, is not the sum 1094 + 73 of the subtotals displayed.
C21_Witness ==
    /\ OtComputedWithNumbers
    /\ otOutput[1].shownWeekday = Some(1094)
    /\ otOutput[1].shownRest = Some(73)
    /\ otOutput[1].shownHoliday = Some(0)
    /\ otOutput[1].shownTotal = Some(1168)

\* The call of parseOtArgs has been through a token: the token, its key
\* and its value.
TokenApplied == otArgs.done > 0
LastToken == otTokens(otArgs.text)[otArgs.done]
LastKey == splitOn(LastToken, {"="}, <<>>)[1]
HasEquals(t) == \E k \in 1..Len(t) : t[k] = "="
ValueChars(t) == SubSeq(t, Len(splitOn(t, {"="}, <<>>)[1]) + 2, Len(t))

\* The field in whose entry of the alias table the key k stands, whatever
\* its case.
IsAlias(k) == toLowerCase(k) \in OtAliasKeys
FieldOfAlias(k) ==
    mapKeysTable[CHOOSE n \in 1..Len(mapKeysTable) :
                    toLowerCase(k) \in mapKeysTable[n].alts].field

\* The number a value made of digits and at most one dot stands for, in
\* hundredths: 3 is 300, 1.5 is 150.
IsNumeral(v) ==
    /\ v # <<>>
    /\ \A k \in 1..Len(v) : v[k] \in HalfDigits \cup {"."}
    /\ v[1] \in HalfDigits
NumberOf(v) ==
    CASE v = <<"3">> -> 300
      [] v = <<"1", ".", "5">> -> 150

\* C22: a token alias=number sets the field of the alias to the number and
\* leaves the other seven fields as they were; a rate-override alias sets
\* its rate field and no hour field.
C22_AliasSetsItsField ==
    (TokenApplied /\ HasEquals(LastToken) /\ IsAlias(LastKey)
        /\ IsNumeral(ValueChars(LastToken)))
      => otArgs.params =
            [otArgs.before EXCEPT
                ![FieldOfAlias(LastKey)] = Some(NumberOf(ValueChars(LastToken)))]

\* The value of a token holds no number: it has no digit.
HoldsNoNumber(v) == \A k \in 1..Len(v) : v[k] \notin HalfDigits

\* C23: a token whose key is not an alias of the table, a token without
\* "=", and a token whose value holds no number each leave every field of
\* the parameter set as it was.
C23_OtherTokensIgnored ==
    (TokenApplied /\ (\/ ~HasEquals(LastToken)
                      \/ ~IsAlias(LastKey)
                      \/ HoldsNoNumber(ValueChars(LastToken))))
      => otArgs.params = otArgs.before

\* How many of the keywords of record rec, normalized and non-empty, occur
\* in the normalized query q.
MatchCount(rec, q) ==
    Cardinality({k \in DOMAIN rec.keywords :
                    /\ normalize(rec.keywords[k]) # <<>>
                    /\ includes(normalize(q), normalize(rec.keywords[k]))})

\* The earliest record with the highest score, when that score is not 0.
TopMatch(recs, q) ==
    LET top == {i \in DOMAIN recs :
                   \A j \in DOMAIN recs :
                       MatchCount(recs[j], q) <= MatchCount(recs[i], q)}
        first == CHOOSE i \in top : \A j \in top : i <= j
    IN  IF top = {} \/ MatchCount(recs[first], q) = 0 THEN None
        ELSE Some(recs[first])

\* C24: findArticleByKeyword returns the record with the highest number of
\* normalized non-empty keywords occurring in the normalized query, the
\* earliest in load order among those with that number, and none when that
\* number is 0 or there is no record; every call with the same records and
\* query returns the same.
C24_BestKeywordMatch ==
    call.fn = "findArticleByKeyword" =>
        \A k \in DOMAIN call.rets : call.rets[k] = TopMatch(articles, call.arg)

\* Two records tied at one keyword each, called twice: the first record is
\* returned both times.
C24_Witness ==
    /\ call.fn = "findArticleByKeyword"
    /\ Len(articles) = 2
    /\ MatchCount(articles[1], call.arg) = 1
    /\ MatchCount(articles[2], call.arg) = 1
    /\ call.rets = <<Some(articles[1]), Some(articles[1])>>

\* The number written by the digits at s[j..], three of them at most, when
\* there is a digit at s[j]; full-width digits count as their half-width
\* values.
DigitsAt(s, j) ==
    LET n == Max({k \in 0..3 : \A d \in 0..(k - 1) :
                    j + d <= Len(s) /\ s[j + d] \in HalfDigits \cup FullDigits})
    IN  SubSeq(s, j, j + n - 1)
RECURSIVE NumberWritten(_)
NumberWritten(ds) ==
    IF ds = <<>> THEN 0
    ELSE 10 * NumberWritten(SubSeq(ds, 1, Len(ds) - 1)) + digitVal(ds[Len(ds)])

\* Where a reference by the name `name` of the act stands in s (the name,
\* 第 or not, a digit), where a bare 第N條 of one to three digits stands,
\* and where the digits of a reference start.
NamedRefs(s, name) ==
    {i \in 1..Len(s) :
        /\ i + Len(name) <= Len(s)
        /\ SubSeq(s, i, i + Len(name) - 1) = name
        /\ \/ DigitsAt(s, i + Len(name)) # <<>>
           \/ s[i + Len(name)] = "Di" /\ DigitsAt(s, i + Len(name) + 1) # <<>>}
BareRefs(s) ==
    {i \in 1..Len(s) :
        /\ s[i] = "Di"
        /\ DigitsAt(s, i + 1) # <<>>
        /\ i + 1 + Len(DigitsAt(s, i + 1)) <= Len(s)
        /\ s[i + 1 + Len(DigitsAt(s, i + 1))] = "Tiao"}
DigitsOfRef(s, i, name) ==
    IF s[i + Len(name)] = "Di" THEN DigitsAt(s, i + Len(name) + 1)
    ELSE DigitsAt(s, i + Len(name))
Leftmost(S) == CHOOSE i \in S : \A j \in S : i <= j

\* The reference that decides: one by the full name of the act before one
\* by its short name before a bare one, the leftmost of its kind.
DecidingRef(text) ==
    LET s == SelectSeq(text, LAMBDA u : u # " ")
        full == NamedRefs(s, <<"LaoDongJiZhunFa">>)
        short == NamedRefs(s, <<"LaoJiFa">>)
        bare == BareRefs(s)
    IN  IF full # {}
        THEN Some(NumberWritten(DigitsOfRef(s, Leftmost(full), <<"LaoDongJiZhunFa">>)))
        ELSE IF short # {}
        THEN Some(NumberWritten(DigitsOfRef(s, Leftmost(short), <<"LaoJiFa">>)))
        ELSE IF bare # {}
        THEN Some(NumberWritten(DigitsAt(s, Leftmost(bare) + 1)))
        ELSE None

\* The numbers N of the texts, as written and as read.
WrittenNumbers ==
    { <<"2", "4">>, <<"F3", "8">>, <<"0">>, <<"1", "2", "3", "4">> }
NumberRead(ds) ==
    CASE ds = <<"2", "4">> -> 24
      [] ds = <<"F3", "8">> -> 38
      [] ds = <<"0">> -> 0
      [] ds = <<"1", "2", "3", "4">> -> 1234

\* The three forms of a reference to article N written as ds, and whether
\* the text, whitespace aside, is one of them.
FormsOf(ds) ==
    { <<"LaoDongJiZhunFa", "Di">> \o ds \o <<"Tiao">>,
      <<"LaoJiFa", "Di">> \o ds \o <<"Tiao">>,
      <<"LaoDongJiZhunFa">> \o ds \o <<"Tiao">>,
      <<"LaoJiFa">> \o ds \o <<"Tiao">>,
      <<"Di">> \o ds \o <<"Tiao">> }
IsFormOf(text, ds) == SelectSeq(text, LAMBDA u : u # " ") \in FormsOf(ds)

\* The text has no article phrase: no digit after a name of the act or
\* after 第.
NoArticlePhrase(text) ==
    LET s == SelectSeq(text, LAMBDA u : u # " ")
    IN  \A i \in 1..Len(s) :
            s[i] \in HalfDigits \cup FullDigits
                => (i = 1 \/ s[i - 1] \notin {"LaoDongJiZhunFa", "LaoJiFa", "Di"}
                              \cup HalfDigits \cup FullDigits)

\* What extractArticleNumber returned for its text.
Extracted(k) == call.rets[k]

\* C25 as stated: the pattern order decides, not the position in the text;
\* full-width digits are read as half-width ones and whitespace is ignored;
\* a text of the form name + 第N條, name + N條 or 第 N 條 yields N, and a
\* text with no article phrase yields none.
C25_FormsYieldN ==
    call.fn = "extractArticleNumber" =>
        \A k \in DOMAIN call.rets :
            /\ Extracted(k) = DecidingRef(call.arg)
            /\ \A ds \in WrittenNumbers :
                  IsFormOf(call.arg, ds) => Extracted(k) = Some(NumberRead(ds))
            /\ NoArticlePhrase(call.arg) => Extracted(k) = None

\* C25 amended: the same for numbers N of one to three digits; of a longer
\* number the first three digits are read after a name of the act, and a
\* bare 第N條 with more than three digits is no reference.
C25_FirstPatternDecides ==
    call.fn = "extractArticleNumber" =>
        \A k \in DOMAIN call.rets :
            /\ Extracted(k) = DecidingRef(call.arg)
            /\ \A ds \in WrittenNumbers :
                  IsFormOf(call.arg, ds) =>
                      Extracted(k) =
                          IF Len(ds) <= 3 THEN Some(NumberRead(ds))
                          ELSE IF Head(SelectSeq(call.arg, LAMBDA u : u # " ")) = "Di"
                          THEN None
                          ELSE Some(NumberRead(ds) \div 10)
            /\ NoArticlePhrase(call.arg) => Extracted(k) = None

\* 第7條 勞基法 24 條: the reference by the name of the act decides, though
\* the bare one stands first.
C25_Witness ==
    /\ call.fn = "extractArticleNumber"
    /\ call.arg = <<"Di", "7", "Tiao", "LaoJiFa", "2", "4", "Tiao">>
    /\ call.rets # <<>>
    /\ call.rets[1] = Some(24)

\* The article number a piece refers to in the bare 第N條 form, if it does.
BareNumberOf(piece) ==
    CASE piece = <<"Di", "1", "1", "Tiao">> -> Some(11)
      [] piece = <<"Di", "1", "7", "Tiao">> -> Some(17)
      [] piece = <<"Di", " ", "7", " ", "Tiao">> -> Some(7)
      [] piece = <<"Di", "0", "Tiao">> -> Some(0)
      [] piece = <<"Di", "F3", "Tiao">> -> Some(3)
      [] piece = <<"Di", "1", "2", "3", "4", "Tiao">> -> Some(1234)
      [] OTHER -> None

\* The numbers the pieces of a text refer to in the bare form: a set, which
\* neither the order of the pieces nor their repetition changes.
BareNumbersIn(pieces) ==
    {BareNumberOf(pieces[k])[1] :
        k \in {j \in DOMAIN pieces : BareNumberOf(pieces[j]) # None}}

NoNumberTwice(nums) ==
    \A j, k \in DOMAIN nums : nums[j] = nums[k] => j = k
Range(f) == {f[k] : k \in DOMAIN f}

\* C26 as stated: extractLawNumbers returns every distinct article number
\* that occurs in the text in the bare 第N條 form, each once, and nothing
\* else, whatever the order and the repetitions of the references.
C26_AllBareNumbers ==
    call.fn = "extractLawNumbers" =>
        \A k \in DOMAIN call.rets :
            /\ NoNumberTwice(call.rets[k])
            /\ Range(call.rets[k]) = BareNumbersIn(call.arg)

\* C26 amended: the same for the numbers 1..999 written in half-width
\* digits; 第0條, a number in full-width digits and a number of more than
\* three digits are not returned.
C26_BareNumbersOnceEach ==
    call.fn = "extractLawNumbers" =>
        \A k \in DOMAIN call.rets :
            /\ NoNumberTwice(call.rets[k])
            /\ Range(call.rets[k]) = BareNumbersIn(call.arg) \ {0, 3, 1234}

\* 第17條 第11條 第17條: 17 and 11 are returned, each once.
C26_Witness ==
    /\ call.fn = "extractLawNumbers"
    /\ call.arg = << <<"Di", "1", "7", "Tiao">>, <<"Di", "1", "1", "Tiao">>,
                     <<"Di", "1", "7", "Tiao">> >>
    /\ call.rets # <<>>
    /\ Range(call.rets[1]) = {11, 17}
    /\ Len(call.rets[1]) = 2

\* C27: every text delivered by reply or push passes the length guard: a
\* text of at most 4500 units goes out unchanged, a longer one goes out as
\* its first 4500 units followed by the truncation marker; a long text is
\* neither dropped nor delivered untruncated.
C27_LengthGuard ==
    call.fn \in {"replyText", "pushText"} =>
        \A k \in DOMAIN call.rets :
            LET sent == call.rets[k].msg.text
            IN  /\ call.rets[k].via = (IF call.fn = "replyText" THEN "reply" ELSE "push")
                /\ Len(call.arg) <= 4500 => sent = call.arg
                /\ Len(call.arg) > 4500 =>
                      /\ Len(sent) = 4500 + Len(TruncationMarker)
                      /\ \A j \in 1..4500 : sent[j] = call.arg[j]
                      /\ \A j \in 1..Len(TruncationMarker) :
                            sent[4500 + j] = TruncationMarker[j]

\* A text of 4501 units pushed: 4500 units and the marker go out.
C27_Witness ==
    /\ call.fn = "pushText"
    /\ Len(call.arg) = 4501
    /\ call.rets # <<>>
    /\ Len(call.rets[1].msg.text) = 4507
    /\ call.rets[1].msg.text[4501] = "LF"

\* A lookup result is one of the records of the list, or none.
IsLoadedRecordOrNone(r) ==
    r = None \/ \E k \in DOMAIN articles : r = Some(articles[k])

\* What the two lookups return for the text of every text message of the
\* request is a loaded record or none.
LookupsReturnLoaded ==
    \A i \in Evs :
        IsTextMessage(events[i]) =>
            /\ IsLoadedRecordOrNone(
                   findArticleByNumber(extractArticleNumber(events[i].text)))
            /\ IsLoadedRecordOrNone(findArticleByKeyword(events[i].text))

\* C28: after the load the article records are the same in every state: no
\* step of the handling of a message adds, removes or changes a record, and
\* findArticleByNumber and findArticleByKeyword return one of the loaded
\* records itself or none.
C28_RecordsNeverChange ==
    /\ [][articles' = articles]_vars
    /\ [](articles = loadArticles("loaded") /\ LookupsReturnLoaded)

\* A reference to article 24 answered from the index, and the records are
\* those that were loaded.
C28_Witness ==
    \E i \in Evs :
        /\ IsTextMessage(events[i])
        /\ pc[i] = "done"
        /\ branch[i] = "article"
        /\ Bodies(deliveries[i]) = <<"article">>
        /\ findArticleByNumber(extractArticleNumber(events[i].text))
              = Some(articles[2])
        /\ articles = ArticlesJson

\* Outcome k of the call of openaiChatWithRetry was a transient failure.
SawTransient(k) ==
    /\ retry.seen[k].type = "error"
    /\ retry.seen[k].err[1].kind # "client"

\* C29: the wait before retry number k (k = 0 for the first retry) is
\* 1000*2^k milliseconds plus a jitter in 0..199, each wait is longer than
\* the one before, and there is no wait after a success, after a
\* non-transient failure or after the last allowed attempt.
C29_BackoffWaits ==
    retry.st # "idle" =>
        /\ \A k \in DOMAIN retry.waits :
              /\ retry.waits[k] >= 1000 * 2^(k - 1)
              /\ retry.waits[k] < 1000 * 2^(k - 1) + 200
              /\ k > 1 => retry.waits[k] > retry.waits[k - 1]
              /\ SawTransient(k)
              /\ k <= retry.retries
        /\ Len(retry.waits) <= retry.retries
        /\ retry.st \in {"returned", "threw"} =>
              Len(retry.waits) = Len(retry.seen) - 1
        /\ retry.st \in {"call", "sleep"} =>
              Len(retry.waits) = Len(retry.seen)

\* Three attempts that all timed out, with the largest jitter before the
\* first retry and none before the second: two waits, 1199 and 2000, and
\* none after the last attempt.
C29_Witness ==
    /\ retry.st = "threw"
    /\ Len(retry.seen) = 3
    /\ \A k \in 1..3 : SawTransient(k)
    /\ retry.waits = <<1199, 2000>>

\* All the remote calls a gateway request has issued: those that came back
\* and the one in flight.
AllCallsIssued(g) == Len(g.log) + (IF g.st = "await" THEN 1 ELSE 0)

\* At most 2 remote calls per tier, at most 6 for a detailed-mode request
\* and at most 4 for a concise-mode one; a request that has returned has
\* returned a text or none.
CallsBounded ==
    \A i \in Evs :
        /\ \A tier \in {"detailed#1", "detailed#2", "concise#1", "concise#fallback"} :
              CallsIssued(gw[i], tier) <= 2
        /\ gw[i].mode = "detailed" => AllCallsIssued(gw[i]) <= 6
        /\ gw[i].mode = "concise" => AllCallsIssued(gw[i]) <= 4
        /\ gw[i].mode = "none" => AllCallsIssued(gw[i]) = 0
        /\ gw[i].st = "ret" => gw[i].result \in {"text", "none"}

AllReturned == \A i \in Evs : gw[i].st \in {"idle", "ret"}

\* C30: whatever the remote calls come back with, a gateway request issues
\* at most 2 remote calls per tier, 6 in all in detailed mode and 4 in
\* concise mode, and in the end returns a text or none.
C30_GatewayTerminates == []CallsBounded /\ <>[]AllReturned

\* A detailed-mode request whose six calls all failed, returning none.
C30_Witness ==
    \E i \in Evs :
        /\ gw[i].mode = "detailed"
        /\ Len(gw[i].log) = 6
        /\ gw[i].st = "ret"
        /\ gw[i].result = "none"

\* The call of the log's k-th entry came back without content.
CameBackEmpty(g, k) == g.log[k].outcome = "empty"

\* The call of the log's k-th entry failed.
CameBackFailed(g, k) == g.log[k].outcome \in {"fatal", "transient"}

\* C31: a remote call of any tier that comes back without content is the
\* last call of the request, which returns none: no retry, no lower tier.
\* A failed call that leaves a retry or a lower tier does not end the
\* request.
C31_EmptyContentReturnsNone ==
    \A i \in Evs :
        \A k \in 1..Len(gw[i].log) :
            /\ CameBackEmpty(gw[i], k) =>
                  /\ k = Len(gw[i].log)
                  /\ gw[i].st = "ret"
                  /\ gw[i].result = "none"
                  /\ gw[i].answer = None
            /\ ( /\ CameBackFailed(gw[i], k)
                 /\ k = Len(gw[i].log)
                 /\ nextTier(gw[i].mode, gw[i].log[k].tier) # "none" ) =>
                  gw[i].st # "ret"

\* A detailed-mode request whose first call came back without content:
\* one call in all, and none returned.
C31_Witness ==
    \E i \in Evs :
        /\ gw[i].mode = "detailed"
        /\ Len(gw[i].log) = 1
        /\ CameBackEmpty(gw[i], 1)
        /\ gw[i].log[1].tier = "detailed#1"
        /\ gw[i].st = "ret"
        /\ gw[i].result = "none"

\* The processing of event i is over: its callback has ended, and its
\* gateway request, if it made one, has returned with no call in flight
\* and no backoff timer pending.
Finished(i) ==
    /\ pc[i] = "done"
    /\ gw[i].st \in {"idle", "ret"}
    /\ gw[i].inflight = 0

\* The 200 is sent in a state where every event is finished, and nothing
\* of any event is written once it is sent.
AckComesLast ==
    /\ (acked' /\ ~acked) => \A i \in Evs : Finished(i)
    /\ acked => \A i \in Evs : PerEvent(i)' = PerEvent(i)

\* C32: the webhook sends its 200 only after the processing of every event
\* of the batch is over (delivered, skipped, or failed and caught), all
\* gateway tiers and backoff waits included; never while one is under way.
C32_AckAfterAllEvents ==
    /\ [][AckComesLast]_vars
    /\ [](acked => \A i \in Evs : Finished(i))

\* The 200 was sent for a batch of a skipped event (Verify) and an event
\* whose gateway request went through a backoff wait and a second tier.
C32_Witness ==
    /\ acked
    /\ \E i, j \in Evs :
          /\ events[i].replyToken = VerifyToken
          /\ deliveries[i] = <<>>
          /\ \E k \in 1..Len(gw[j].log) : gw[j].log[k].attempt = 1
          /\ \E k \in 1..Len(gw[j].log) : gw[j].log[k].tier = "concise#fallback"

\* The interim acknowledgement of the AI-mode branch, replied on the
\* event's reply token.
InterimAck == reply("aiThinking")

\* The AI-mode bodies that follow the interim acknowledgement.
AiBodies == {"aiAnswer", "aiDegraded", "aiNoKey"}

\* The interim acknowledgement is the first delivery of event i, made
\* before any remote call of its gateway request is issued.
AckBeforeFirstCall(i) ==
    /\ deliveries[i] # <<>>
    /\ deliveries[i][1] = InterimAck
    /\ Len(deliveries[i]) <= 2

\* The body of event i goes by push when the event names a sender and by a
\* second reply otherwise.
BodyRouted(i) ==
    Len(deliveries[i]) = 2 =>
        /\ deliveries[i][2].body \in AiBodies
        /\ deliveries[i][2].via = AnswerVia(gw[i])

\* The body of event i is delivered only once its gateway request has
\* returned.
BodyAfterGatewayReturn(i) ==
    /\ Len(deliveries[i]) = 2 => (gw[i].st = "ret" /\ gw[i].inflight = 0)
    /\ pc[i] = "done" => Len(deliveries[i]) = 2

\* C33 as stated: in the AI-mode branch with a question, the interim
\* acknowledgement is replied before the first remote call, and the body is
\* delivered only after the gateway has returned, by push to the sender when
\* there is one and by a second reply otherwise.
C33_BodyAfterGateway ==
    \A i \in Evs :
        (Dispatched(i) /\ IsAiQuestion(events[i]))
            => /\ AckBeforeFirstCall(i)
               /\ BodyRouted(i)
               /\ BodyAfterGatewayReturn(i)

\* C33 amended: the same when an OpenAI client is configured; without one
\* the gateway is never invoked, and the no-key body follows the interim
\* acknowledgement at once, routed in the same way.
C33_AckThenBody ==
    \A i \in Evs :
        (Dispatched(i) /\ IsAiQuestion(events[i]))
            => /\ AckBeforeFirstCall(i)
               /\ BodyRouted(i)
               /\ IF hasOpenAI
                  THEN BodyAfterGatewayReturn(i)
                  ELSE /\ GatewayUntouched(gw[i])
                       /\ pc[i] = "done"
                       /\ Len(deliveries[i]) = 2
                       /\ deliveries[i][2].body = "aiNoKey"

\* A question from an event without a sender id: the gateway returned its
\* text after two remote calls, and the answer went by a second reply
\* after the interim one.
C33_Witness ==
    \E i \in Evs :
        /\ IsAiQuestion(events[i])
        /\ pc[i] = "done"
        /\ gw[i].to = "null"
        /\ Len(gw[i].log) = 2
        /\ GaveText(gw[i])
        /\ deliveries[i][1] = InterimAck
        /\ deliveries[i][2].via = "reply"
        /\ deliveries[i][2].body = "aiAnswer"

====
